---- MODULE Spec2Model ----
(***************************************************************************)
(* Model of the Design-of-Experiments pipeline of kn_extension_simulation: *)
(* the Factor Definition node (nodes/factor_range_doe.py), the encoding    *)
(* helpers (utils/factor_utils.py) and the Design of Experiments node      *)
(* (nodes/design_of_experiments.py).                                       *)
(*                                                                         *)
(* A Python string is a sequence of tokens (one-character strings, or a    *)
(* literal of the source such as "factor-mapping_" kept as one token).     *)
(* A table cell is a record [t, i, s]: an integer, a string or a missing   *)
(* value.  A Python dict is a sequence of <<key, value>> pairs in          *)
(* insertion order.                                                        *)
(***************************************************************************)
EXTENDS Integers, Sequences, FiniteSets, TLC

VARIABLES
    flow_variables,  \* exec_context.flow_variables: dict key -> JSON text
    input_tables,    \* the tables connected to the Design of Experiments node
    pc,              \* position inside the workflow / inside DesignOfExperiments.execute
    design_choice,   \* self.design_choice
    samples,         \* self.samples
    lhs_iterations,  \* self.lhs_iterations
    factor_cols,     \* list(merged_dict.keys())
    levels_map,      \* dict column -> unique_levels(merged_dict[column])
    est_runs,        \* prod(level_counts), computed under FULLFAC
    raw,             \* the coded matrix pyDOE3 returned (fullfact, lhs or pbdesign)
    df_doe,          \* the wide design as generated and stamped: [columns, rows]
    experiment_name, \* the EXPERIMENT stamp
    df_long,         \* the rows of the long design as flattened
    out_wide,        \* the wide table after doe_string_mapping(axis=0)
    out_long,        \* the long table after doe_string_mapping(axis=1): [columns, rows]
    error,           \* the exception that ended the run
    log              \* LOGGER.warning calls

vars == <<flow_variables, input_tables, pc, design_choice, samples, lhs_iterations,
          factor_cols, levels_map, est_runs, raw, df_doe, experiment_name,
          df_long, out_wide, out_long, error, log>>

----------------------------------------------------------------------------
(* Bounds of the model *)

\* how many tables are wired into the Design of Experiments node
MaxTables == 2
\* largest value of the "Number of Samples" setting that is explored
MaxSamples == 2
\* largest value of the "LHS Iterations" setting that is explored
MaxIterations == 2
\* sub-intervals per stratum of the grid the unit coordinates are drawn from
LhsSubdiv == 2
\* LHS is expanded only while factors * samples stays within this many coordinates
MaxLhsCells == 3
\* a full factorial is materialised only up to this many rows
MaxRows == 6

(* Program constants *)

\* the full-factorial ceiling
MaxRuns == 1000000
\* minimum width of the zero-padded configuration number
ConfigWidth == 6
\* default of the "Number of Samples" setting
DefaultSamples == 50
\* default of the "LHS Iterations" setting
DefaultIterations == 10

----------------------------------------------------------------------------
(* Python values *)

IntV(n) == [t |-> "int", i |-> n, s |-> <<>>]
StrV(str) == [t |-> "str", i |-> 0, s |-> str]
NaN == [t |-> "nan", i |-> 0, s |-> <<>>]

\* pd.notna(v)
notna(v) == v.t # "nan"

Max2(a, b) == IF a >= b THEN a ELSE b
Min2(a, b) == IF a <= b THEN a ELSE b

Digits == <<"0", "1", "2", "3", "4", "5", "6", "7", "8", "9">>

RECURSIVE NatStr(_)
NatStr(n) == IF n < 10 THEN <<Digits[n + 1]>> ELSE NatStr(n \div 10) \o <<Digits[(n % 10) + 1]>>

\* str(i) of an int
IntStr(n) == IF n < 0 THEN <<"-">> \o NatStr(-n) ELSE NatStr(n)

\* str(v) / f"{v}" / astype(str) of a cell
PyStr(v) == CASE v.t = "int" -> IntStr(v.i)
              [] v.t = "str" -> v.s
              [] OTHER -> <<"nan">>

\* f"{i:06d}": zero padded to a minimum width
RECURSIVE ZeroPad(_, _)
ZeroPad(str, width) == IF Len(str) >= width THEN str ELSE ZeroPad(<<"0">> \o str, width)

IsDigit(c) == \E d \in 1..10 : Digits[d] = c

DigitVal(c) == (CHOOSE d \in 1..10 : Digits[d] = c) - 1

RECURSIVE DigitsVal(_)
DigitsVal(str) == IF str = <<>> THEN 0
                  ELSE 10 * DigitsVal(SubSeq(str, 1, Len(str) - 1)) + DigitVal(str[Len(str)])

\* whether float(v) succeeds: numbers convert, strings only when they spell a number
FloatOk(v) == \/ v.t = "int"
              \/ v.t = "nan"
              \/ v.t = "str" /\ v.s # <<>> /\ \A k \in 1..Len(v.s) : IsDigit(v.s[k])

\* str(int(round(float(v)))) for a cell float() accepts and that is not missing
RoundedCode(v) == IF v.t = "int" THEN IntStr(v.i) ELSE NatStr(DigitsVal(v.s))

----------------------------------------------------------------------------
(* Python strings *)

\* str.find(c): 0 when absent, else the first (1-based) position
Find(str, c) == IF \E k \in 1..Len(str) : str[k] = c
                THEN CHOOSE k \in 1..Len(str) : str[k] = c /\ \A j \in 1..(k - 1) : str[j] # c
                ELSE 0

\* str.split(sep)
RECURSIVE Split(_, _)
Split(str, sep) == LET k == Find(str, sep)
                   IN IF k = 0 THEN <<str>>
                      ELSE <<SubSeq(str, 1, k - 1)>> \o Split(SubSeq(str, k + 1, Len(str)), sep)

UpperChar(c) == CASE c = "u" -> "U"
                  [] c = "n" -> "N"
                  [] c = "a" -> "A"
                  [] c = "b" -> "B"
                  [] c = "v" -> "V"
                  [] c = "w" -> "W"
                  [] OTHER -> c

\* str.upper()
Upper(str) == [k \in 1..Len(str) |-> UpperChar(str[k])]

\* code point of a character
Ord(c) == CASE c = "0" -> 48 [] c = "1" -> 49 [] c = "2" -> 50 [] c = "3" -> 51
            [] c = ":" -> 58 [] c = "?" -> 63
            [] c = "A" -> 65 [] c = "B" -> 66 [] c = "N" -> 78 [] c = "T" -> 84
            [] c = "U" -> 85 [] c = "V" -> 86 [] c = "W" -> 87
            [] c = "[" -> 91 [] c = "]" -> 93
            [] c = "a" -> 97 [] c = "b" -> 98 [] c = "n" -> 110 [] c = "u" -> 117
            [] c = "v" -> 118 [] c = "w" -> 119
            [] OTHER -> 128

\* a < b for Python strings
StrLess(a, b) == \E k \in 1..(Min2(Len(a), Len(b)) + 1) :
                    /\ \A j \in 1..(k - 1) : a[j] = b[j]
                    /\ \/ k = Len(a) + 1 /\ k <= Len(b)
                       \/ k <= Len(a) /\ k <= Len(b) /\ Ord(a[k]) < Ord(b[k])

----------------------------------------------------------------------------
(* Python dicts: sequences of <<key, value>> pairs, keys unique *)

DictHas(d, key) == \E k \in 1..Len(d) : d[k][1] = key

DictGet(d, key) == d[CHOOSE k \in 1..Len(d) : d[k][1] = key][2]

\* an assignment that keeps the value a key already has
DictSetKeepingFirst(d, key, val) == IF DictHas(d, key) THEN d ELSE Append(d, <<key, val>>)

\* d[key] = val
DictSet(d, key, val) == IF DictHas(d, key)
                        THEN [k \in 1..Len(d) |-> IF d[k][1] = key THEN <<key, val>> ELSE d[k]]
                        ELSE Append(d, <<key, val>>)

\* an update that moves the keys it overwrites to the end
DictUpdateMovingKeys(d, e) == SelectSeq(d, LAMBDA kv : ~DictHas(e, kv[1])) \o e

\* d |= e
RECURSIVE DictUpdate(_, _)
DictUpdate(d, e) == IF e = <<>> THEN d
                    ELSE DictUpdate(DictSet(d, e[1][1], e[1][2]), Tail(e))

DictKeys(d) == [k \in 1..Len(d) |-> d[k][1]]

----------------------------------------------------------------------------
(* JSON text of a {str: str} object: the tokens { "k" : "v" , ... } *)

JTok(p) == [p |-> p, s |-> <<>>]
JStr(str) == [p |-> "str", s |-> str]

RECURSIVE JsonItems(_)
JsonItems(d) == IF d = <<>> THEN <<>>
                ELSE <<JStr(d[1][1]), JTok(":"), JStr(d[1][2])>>
                     \o (IF Len(d) > 1 THEN <<JTok(",")>> ELSE <<>>)
                     \o JsonItems(Tail(d))

\* json.dumps(mapping)
json_dumps(d) == <<JTok("{")>> \o JsonItems(d) \o <<JTok("}")>>

JsonWellFormed(text) ==
    /\ Len(text) >= 2
    /\ text[1] = JTok("{")
    /\ text[Len(text)] = JTok("}")
    /\ \/ Len(text) = 2
       \/ /\ Len(text) % 4 = 1
          /\ \A k \in 1..((Len(text) - 1) \div 4) :
                /\ text[4 * k - 2].p = "str"
                /\ text[4 * k - 1] = JTok(":")
                /\ text[4 * k].p = "str"
                /\ text[4 * k + 1] = (IF 4 * k + 1 = Len(text) THEN JTok("}") ELSE JTok(","))

RECURSIVE JsonObject(_, _)
JsonObject(text, k) == IF 4 * k + 1 > Len(text) THEN <<>>
                       ELSE DictUpdate(<<<<text[4 * k - 2].s, text[4 * k].s>>>>,
                                       JsonObject(text, k + 1))

\* json.loads(text): the object, a later duplicate key replacing an earlier one
json_loads(text) == JsonObject(text, 1)

----------------------------------------------------------------------------
(* utils/factor_utils.py: encoding *)

\* an encoding that gives a repeated label the code of its first occurrence
factor_string_mapping_by_label(string_values) ==
    LET First(k) == CHOOSE h \in 1..k : string_values[h] = string_values[k]
                                        /\ \A g \in 1..(h - 1) : string_values[g] # string_values[k]
    IN [values  |-> [k \in 1..Len(string_values) |-> First(k) - 1],
        mapping |-> [k \in 1..Len(string_values) |-> <<IntStr(First(k) - 1), string_values[k]>>]]

\* the codes 0..n-1 and the dict {str(i): val}
factor_string_mapping(string_values) ==
    [values  |-> [k \in 1..Len(string_values) |-> k - 1],
     mapping |-> [k \in 1..Len(string_values) |-> <<IntStr(k - 1), string_values[k]>>]]

\* a range that still takes the first value at or past stop
PyRangePastStop(start, stop, step) ==
    IF step > 0
    THEN [k \in 1..Max2(0, ((stop - start) \div step) + 1) |-> start + (k - 1) * step]
    ELSE [k \in 1..Max2(0, (start - stop - step - 1) \div (-step)) |-> start + (k - 1) * step]

\* list(range(start, stop, step)) for step # 0
PyRange(start, stop, step) ==
    IF step > 0
    THEN [k \in 1..Max2(0, (stop - start + step - 1) \div step) |-> start + (k - 1) * step]
    ELSE [k \in 1..Max2(0, (start - stop - step - 1) \div (-step)) |-> start + (k - 1) * step]

MappingKey(column_name) == <<"factor-mapping_">> \o column_name

\* get_values(node, exec_context, column_name): the returned tuple and the flow
\* variables as the call leaves them
get_values(node, flow_vars, column_name) ==
    IF node.factor_data_type = "STRING"
    THEN LET fm == factor_string_mapping(node.string_configuration)
         IN [values |-> fm.values, min_value |-> 0,
             max_value |-> Len(node.string_configuration) - 1, step_value |-> 1,
             flow |-> DictSet(flow_vars, MappingKey(column_name), json_dumps(fm.mapping))]
    ELSE [values |-> PyRange(node.min_value, node.max_value + 1, node.step_value),
          min_value |-> node.min_value, max_value |-> node.max_value,
          step_value |-> node.step_value, flow |-> flow_vars]

----------------------------------------------------------------------------
(* nodes/factor_range_doe.py: the Factor Definition node *)

IntCells(ints) == [k \in 1..Len(ints) |-> IntV(ints[k])]

\* DataFrame.drop_duplicates(): the first occurrence of every row is kept
RECURSIVE drop_duplicates(_)
drop_duplicates(rows) ==
    IF rows = <<>> THEN <<>>
    ELSE LET init == drop_duplicates(SubSeq(rows, 1, Len(rows) - 1))
             last == rows[Len(rows)]
         IN IF \E k \in 1..Len(init) : init[k] = last THEN init ELSE Append(init, last)

RowPresent(row) == notna(row[1]) /\ notna(row[2])

\* input_df[[unique_col, name_col]].drop_duplicates().dropna().values
Combinations(rows) == SelectSeq(drop_duplicates(rows), RowPresent)

\* f"{tab_name}:[{unique_col}]{unique_val}:[{name_col}]{name_val}:{value_col}"
FactorKey(tab_name, unique_col, unique_val, name_col, name_val, value_col) ==
    tab_name \o <<":", "[">> \o unique_col \o <<"]">> \o PyStr(unique_val)
             \o <<":", "[">> \o name_col \o <<"]">> \o PyStr(name_val)
             \o <<":">> \o value_col

RECURSIVE TableBasedDict(_, _, _, _)
TableBasedDict(node, value_col, gv, combos) ==
    IF combos = <<>> THEN <<>>
    ELSE LET init == TableBasedDict(node, value_col, gv, SubSeq(combos, 1, Len(combos) - 1))
             c    == combos[Len(combos)]
         IN DictSet(init,
                    FactorKey(node.table_name, node.unique_identifier, c[1],
                              node.factor_name, c[2], value_col),
                    IntCells(PyRange(gv.min_value, gv.max_value + 1, gv.step_value)))

ValueColumn(node) == IF node.factor_data_type = "STRING"
                     THEN node.string_factor_value ELSE node.numeric_factor_value

\* FactorDefinitionDOE.execute: the output table and the flow variables it leaves
FactorDefinitionResult(node, flow_vars) ==
    LET value_col == ValueColumn(node)
        gv == get_values(node, flow_vars, value_col)
    IN [flow  |-> gv.flow,
        table |-> [kind |-> "table",
                   cols |-> IF node.factor_input_type = "TABLEBASED"
                            THEN TableBasedDict(node, value_col, gv, Combinations(node.input_1))
                            ELSE <<<<value_col, IntCells(gv.values)>>>>]]

(* The node settings explored.  A field the selected mode does not read keeps *)
(* its default.                                                               *)
Node(input_type, data_type, table, ucol, ncol, vcol, strings, lo, hi, step, rows) ==
    [factor_input_type |-> input_type, factor_data_type |-> data_type,
     table_name |-> table, unique_identifier |-> ucol, factor_name |-> ncol,
     string_factor_value |-> vcol, numeric_factor_value |-> vcol,
     string_configuration |-> strings, min_value |-> lo, max_value |-> hi,
     step_value |-> step, input_1 |-> rows]

S(c) == StrV(<<c>>)

\* (identifier, name) columns of a Factor Definition input table: a repeated
\* pair and a row with a missing identifier
RepeatedRows == << <<S("a"), S("b")>>, <<S("a"), S("b")>>, <<NaN, S("b")>> >>

\* three distinct pairs
DistinctRows == << <<S("a"), S("b")>>, <<S("a"), S("n")>>, <<S("u"), S("b")>> >>

\* two distinct pairs: (a:[N]b, b) and (a, b:[N]b)
DelimiterRows == << <<StrV(<<"a", ":", "[", "N", "]", "b">>), S("b")>>,
                    <<S("a"), StrV(<<"b", ":", "[", "N", "]", "b">>)>> >>

NodeSettings ==
    { \* color: a STRING argument factor in value column v
      Node("ARGUMENTBASED", "STRING", <<>>, <<>>, <<>>, <<"v">>,
           << <<"red">>, <<"blue">> >>, 0, 1, 1, <<>>),
      \* speed: a NUMERIC argument factor 1..2 in value column w
      Node("ARGUMENTBASED", "NUMERIC", <<>>, <<>>, <<>>, <<"w">>, <<>>, 1, 2, 1, <<>>),
      \* a table-based STRING factor that shares value column v
      Node("TABLEBASED", "STRING", <<"T">>, <<"U">>, <<"N">>, <<"v">>,
           << <<"lo">>, <<"mid">>, <<"hi">> >>, 0, 1, 1, RepeatedRows),
      \* a STRING argument factor whose value column name holds a colon
      Node("ARGUMENTBASED", "STRING", <<>>, <<>>, <<>>, <<"a", ":", "b">>,
           << <<"x">>, <<"y">> >>, 0, 1, 1, <<>>),
      \* three table-based NUMERIC factors of 100 levels each
      Node("TABLEBASED", "NUMERIC", <<"T">>, <<"u">>, <<"n">>, <<"w">>, <<>>, 1, 100, 1,
           DistinctRows),
      \* a NUMERIC argument factor of 3 levels in value column b
      Node("ARGUMENTBASED", "NUMERIC", <<>>, <<>>, <<>>, <<"b">>, <<>>, 0, 2, 1, <<>>),
      \* a table-based NUMERIC factor of a table that is named ARGUMENT
      Node("TABLEBASED", "NUMERIC", <<"ARGUMENT">>, <<"U">>, <<"N">>, <<"w">>, <<>>, 1, 2, 1,
           << <<S("a"), S("b")>> >>),
      \* a STRING argument factor with a repeated label, in a value column whose
      \* name starts with the text factor-mapping_
      Node("ARGUMENTBASED", "STRING", <<>>, <<>>, <<>>, <<"factor-mapping_", "z">>,
           << <<"p">>, <<"q">>, <<"p">> >>, 0, 1, 1, <<>>),
      \* a NUMERIC argument factor whose step does not divide maximum - minimum
      Node("ARGUMENTBASED", "NUMERIC", <<>>, <<>>, <<>>, <<"n">>, <<>>, 1, 4, 2, <<>>),
      \* a table-based NUMERIC factor over two pairs whose values hold the
      \* delimiters of the column name
      Node("TABLEBASED", "NUMERIC", <<"T">>, <<"U">>, <<"N">>, <<"w">>, <<>>, 1, 2, 1,
           DelimiterRows),
      \* a STRING argument factor whose value column name is bracketed
      Node("ARGUMENTBASED", "STRING", <<>>, <<>>, <<>>, <<"[", "n", "]", "b">>,
           << <<"p">>, <<"q">> >>, 0, 1, 1, <<>>) }

(* Tables that reach the Design of Experiments node from other nodes *)
RawTables ==
    { \* a string column named like a value column, with a missing cell
      [kind |-> "table",
       cols |-> << <<<<"v">>, <<S("red"), NaN, S("1"), S("red")>>>> >>],
      \* malformed names: an unmatched bracket, a name with no value column
      [kind |-> "table",
       cols |-> << <<<<"T", ":", "[", "U", "a", ":", "w">>, <<IntV(2), IntV(1)>>>>,
                   <<<<"T", ":", "[", "n", "]", "b">>, <<IntV(1), IntV(0)>>>> >>],
      \* two columns named like the value columns w and v, w first
      [kind |-> "table",
       cols |-> << <<<<"w">>, <<IntV(7), IntV(7), IntV(8)>>>>,
                   <<<<"v">>, <<IntV(1), IntV(0), IntV(1)>>>> >>],
      \* a column whose cells are all missing
      [kind |-> "table", cols |-> << <<<<"u">>, <<NaN, NaN>>>> >>],
      \* a table without columns
      [kind |-> "table", cols |-> <<>>],
      \* an unconnected port: input_table is None
      [kind |-> "none", cols |-> <<>>],
      \* a table on which to_pandas() raises
      [kind |-> "bad", cols |-> <<>>] }

----------------------------------------------------------------------------
(* nodes/design_of_experiments.py: collecting the inputs *)

NoError == [kind |-> "none", col |-> <<>>, n |-> 0, limit |-> 0]
Raise(kind, col, n, limit) == [kind |-> kind, col |-> col, n |-> n, limit |-> limit]

\* a round in which a failed conversion discards what was merged so far
MergeOneDiscarding(st, input_table) ==
    IF input_table.kind = "none" THEN st
    ELSE IF input_table.kind = "bad"
    THEN [st EXCEPT !.merged = <<>>,
                    !.log = Append(@, <<"error processing an input table", <<>>>>)]
    ELSE LET cols == DictKeys(input_table.cols)
             dups == SelectSeq(cols, LAMBDA c : c \in st.seen)
         IN [merged |-> DictUpdate(st.merged, input_table.cols),
             seen   |-> st.seen \cup {cols[k] : k \in 1..Len(cols)},
             log    |-> IF dups # <<>>
                        THEN Append(st.log, <<"duplicate factor columns overwritten", dups>>)
                        ELSE st.log]

\* a round in which a failed conversion leaves no trace in the log
MergeOneSilent(st, input_table) ==
    IF input_table.kind \in {"none", "bad"} THEN st
    ELSE LET cols == DictKeys(input_table.cols)
             dups == SelectSeq(cols, LAMBDA c : c \in st.seen)
         IN [merged |-> DictUpdate(st.merged, input_table.cols),
             seen   |-> st.seen \cup {cols[k] : k \in 1..Len(cols)},
             log    |-> IF dups # <<>>
                        THEN Append(st.log, <<"duplicate factor columns overwritten", dups>>)
                        ELSE st.log]

\* one round of the loop over input_tables; st = [merged, seen, log]
MergeOne(st, input_table) ==
    IF input_table.kind = "none" THEN st
    ELSE IF input_table.kind = "bad"
    THEN [st EXCEPT !.log = Append(@, <<"error processing an input table", <<>>>>)]
    ELSE LET cols == DictKeys(input_table.cols)
             dups == SelectSeq(cols, LAMBDA c : c \in st.seen)
         IN [merged |-> DictUpdate(st.merged, input_table.cols),
             seen   |-> st.seen \cup {cols[k] : k \in 1..Len(cols)},
             log    |-> IF dups # <<>>
                        THEN Append(st.log, <<"duplicate factor columns overwritten", dups>>)
                        ELSE st.log]

RECURSIVE MergeTables(_, _)
MergeTables(st, tables) ==
    IF tables = <<>> THEN st ELSE MergeTables(MergeOne(st, Head(tables)), Tail(tables))

\* unique_levels(col_values): the non-missing values, first occurrences only.
\* The loop is evaluated by halves: the levels of the first half, then those of
\* the second half that the first half does not hold.
\* a level extraction that keeps repeated values
unique_levels_keep_all(col_values) == SelectSeq(col_values, notna)

RECURSIVE unique_levels(_)
unique_levels(col_values) ==
    IF Len(col_values) <= 1 THEN SelectSeq(col_values, notna)
    ELSE LET h     == Len(col_values) \div 2
             first == unique_levels(SubSeq(col_values, 1, h))
             rest  == unique_levels(SubSeq(col_values, h + 1, Len(col_values)))
             seen_vals == {first[k] : k \in 1..Len(first)}
         IN first \o SelectSeq(rest, LAMBDA v : v \notin seen_vals)

LevelsMap(merged) == [k \in 1..Len(merged) |-> <<merged[k][1], unique_levels(merged[k][2])>>]

\* level counts that let a factor without levels count as zero
LevelCountsUnclamped(cols, lmap) == [k \in 1..Len(cols) |-> Len(DictGet(lmap, cols[k]))]

\* level_counts
LevelCounts(cols, lmap) == [k \in 1..Len(cols) |-> Max2(1, Len(DictGet(lmap, cols[k])))]

RECURSIVE Prod(_)
Prod(counts) == IF counts = <<>> THEN 1 ELSE Head(counts) * Prod(Tail(counts))

----------------------------------------------------------------------------
(* pyDOE3, as called by execute *)

\* fullfact(levels): row r (from 0) holds in column j the digit of r in the mixed
\* radix levels[1], levels[2], ...: column 1 is the fastest
RECURSIVE Repeat(_, _)
Repeat(counts, j) == IF j <= 1 THEN 1 ELSE counts[j - 1] * Repeat(counts, j - 1)

\* a fullfact whose columns all cycle at the same pace
py_fullfact_no_repeat(counts) ==
    [r \in 1..Prod(counts) |-> [j \in 1..Len(counts) |-> (r - 1) % counts[j]]]

\* a fullfact whose last column is the fastest
py_fullfact_last_fastest(counts) ==
    [r \in 1..Prod(counts) |->
        [j \in 1..Len(counts) |->
            ((r - 1) \div Prod(SubSeq(counts, j + 1, Len(counts)))) % counts[j]]]

py_fullfact(counts) ==
    [r \in 1..Prod(counts) |->
        [j \in 1..Len(counts) |-> ((r - 1) \div Repeat(counts, j)) % counts[j]]]

\* lhs(n, samples, criterion, iterations): samples points of the unit n-cube, one
\* per stratum in every dimension, as numerators over samples * LhsSubdiv.  The
\* criterion and the iteration count select among such samples; any of them can
\* be returned.
LhsDen(num_samples) == num_samples * LhsSubdiv

\* The point of stratum p (1..samples) is u * (b - a) + a with a = cut[p - 1],
\* b = cut[p], cut = linspace(0, 1, samples + 1) and u drawn from [0, 1).  For
\* the largest u, 1 - 2^-53, the sum is rounded to b in double arithmetic, except
\* in the first stratum, where a = 0 and u * b is exact, and in the strata listed
\* here (samples up to 8).
LhsUpperEndReached(p, num_samples) ==
    p >= 2 /\ <<num_samples, p>> \notin {<<3, 2>>, <<6, 2>>, <<7, 3>>}

\* columns of points that are not tied to strata
LhsColumnsUnstratified(num_samples) == [1..num_samples -> 0..LhsDen(num_samples)]

LhsColumns(num_samples) ==
    { c \in [1..num_samples -> 0..LhsDen(num_samples)] :
        \E p \in [1..num_samples -> 1..num_samples] :
            /\ \A a, b \in 1..num_samples : a # b => p[a] # p[b]
            /\ \A r \in 1..num_samples :
                  /\ (p[r] - 1) * LhsSubdiv <= c[r]
                  /\ c[r] <= p[r] * LhsSubdiv
                  /\ c[r] = p[r] * LhsSubdiv => LhsUpperEndReached(p[r], num_samples) }

py_lhs(n, num_samples, criterion, iterations) ==
    { [r \in 1..num_samples |-> [j \in 1..n |-> cs[j][r]]] :
        cs \in [1..n -> LhsColumns(num_samples)] }

\* parity of the number of common one bits of a and b
RECURSIVE BitParity(_, _)
BitParity(a, b) == IF a = 0 \/ b = 0 THEN 0
                   ELSE ((a % 2) * (b % 2) + BitParity(a \div 2, b \div 2)) % 2

RECURSIVE IsPow2(_)
IsPow2(n) == n = 1 \/ (n > 1 /\ n % 2 = 0 /\ IsPow2(n \div 2))

PbRows(n) == 4 * ((n \div 4) + 1)

\* pbdesign(n) when the run count 4 * (n // 4 + 1) is a power of two: the Sylvester
\* Hadamard matrix without its first column, cut to n columns, rows reversed
py_pb(n) ==
    [r \in 1..PbRows(n) |->
        [j \in 1..n |-> IF BitParity(PbRows(n) - r, j) = 0 THEN 1 ELSE -1]]

----------------------------------------------------------------------------
(* nodes/design_of_experiments.py: generating the design *)

\* the first column of cols without levels, 0 when every column has some
FirstEmpty(cols, lmap) ==
    IF \E k \in 1..Len(cols) : DictGet(lmap, cols[k]) = <<>>
    THEN CHOOSE k \in 1..Len(cols) :
            /\ DictGet(lmap, cols[k]) = <<>>
            /\ \A j \in 1..(k - 1) : DictGet(lmap, cols[j]) # <<>>
    ELSE 0

\* data[col] = [lvls[idx] for idx in raw[:, j]]
FullfacRows(cols, lmap, coded) ==
    [r \in 1..Len(coded) |-> [j \in 1..Len(cols) |-> DictGet(lmap, cols[j])[coded[r][j] + 1]]]

Clip(x, lo, hi) == IF x < lo THEN lo ELSE IF x > hi THEN hi ELSE x

\* a discretization that rounds up instead of down
DiscretizeCeil(num, den, L) == Clip((num * L + den - 1) \div den, 0, L - 1)

\* np.clip(np.floor(u * L).astype(int), 0, L - 1) for u = num / den
Discretize(num, den, L) == Clip((num * L) \div den, 0, L - 1)

LhsRows(cols, lmap, U, den) ==
    [r \in 1..Len(U) |->
        [j \in 1..Len(cols) |->
            LET lvls == DictGet(lmap, cols[j])
            IN lvls[Discretize(U[r][j], den, Len(lvls)) + 1]]]

\* a two-level test that only rejects factors with fewer than two levels
FewerThanTwoLevels(lvls) == Len(lvls) < 2

\* len(lvls) != 2 or len(set(lvls)) != 2
NotTwoLevels(lvls) == Len(lvls) # 2 \/ Cardinality({lvls[k] : k \in 1..Len(lvls)}) # 2

\* the first item of levels_map that fails the two-level test, 0 when none does
FirstNotTwo(lmap) ==
    IF \E k \in 1..Len(lmap) : NotTwoLevels(lmap[k][2])
    THEN CHOOSE k \in 1..Len(lmap) :
            /\ NotTwoLevels(lmap[k][2])
            /\ \A j \in 1..(k - 1) : ~NotTwoLevels(lmap[j][2])
    ELSE 0

\* pd.api.types.is_numeric_dtype(pd.Series(lvls))
is_numeric_dtype(lvls) == \A k \in 1..Len(lvls) : lvls[k].t = "int"

\* a low level that is always the first declared one
PbLowFirstDeclared(lvls) == lvls[1]

PbLow(lvls) == IF is_numeric_dtype(lvls)
               THEN IntV(Min2(lvls[1].i, lvls[2].i)) ELSE lvls[1]

PbHigh(lvls) == IF is_numeric_dtype(lvls)
                THEN IntV(Max2(lvls[1].i, lvls[2].i)) ELSE lvls[2]

\* np.where(M[:, j] <= 0, low, high)
PbRowsMapped(cols, lmap, M) ==
    [r \in 1..Len(M) |->
        [j \in 1..Len(cols) |->
            LET lvls == DictGet(lmap, cols[j])
            IN IF M[r][j] <= 0 THEN PbLow(lvls) ELSE PbHigh(lvls)]]

----------------------------------------------------------------------------
(* nodes/design_of_experiments.py: stamping and flattening *)

Unknown == <<"?">>

\* f"configuration_{i:06d}"
ConfigurationId(i) == <<"configuration_">> \o ZeroPad(IntStr(i), ConfigWidth)

\* df_doe.insert(0, "EXPERIMENT", ...); df_doe.insert(1, "CONFIGURATION", ...)
\* a stamping that numbers the configurations from 1
StampedFromOne(cols, rows, name) ==
    [columns |-> <<<<"EXPERIMENT">>, <<"CONFIGURATION">>>> \o cols,
     rows    |-> [r \in 1..Len(rows) |->
                     <<StrV(name), StrV(ConfigurationId(r))>> \o rows[r]]]

\* the row with index i (from 0) after the two inserts
StampedRow(name, i, row) == <<StrV(name), StrV(ConfigurationId(i))>> \o row

Stamped(cols, rows, name) ==
    [columns |-> <<<<"EXPERIMENT">>, <<"CONFIGURATION">>>> \o cols,
     rows    |-> [r \in 1..Len(rows) |-> StampedRow(name, r - 1, rows[r])]]

\* a label test that does not look for the closing bracket
IsLabelPartNoClose(part) == part # <<>> /\ part[1] = "["

IsLabelPart(part) == part # <<>> /\ part[1] = "[" /\ Find(part, "]") # 0

\* the loop over parts[1:]: st = [label_map, value_col]
RECURSIVE ParseParts(_, _)
ParseParts(st, parts) ==
    IF parts = <<>> THEN st
    ELSE LET part == Head(parts)
             k    == Find(part, "]")
         IN ParseParts(
                IF IsLabelPart(part)
                THEN [st EXCEPT !.label_map =
                         DictSet(@, Upper(SubSeq(part, 2, k - 1)), SubSeq(part, k + 1, Len(part)))]
                ELSE [st EXCEPT !.value_col = part],
                Tail(parts))

\* the label pairs left in the order of the column name
ItemsAsInserted(d) == d

\* sorted(label_map.items()): the keys are distinct, so the key decides
SortedItems(d) ==
    [k \in 1..Len(d) |->
        d[CHOOSE m \in 1..Len(d) :
              Cardinality({j \in 1..Len(d) : StrLess(d[j][1], d[m][1])}) = k - 1]]

\* a parse that sends a name without a colon through the labelled branch
ParseColumnNoArgument(col) ==
    LET parts == Split(col, ":")
        st == ParseParts([label_map |-> <<>>, value_col |-> Unknown], Tail(parts))
        labels_sorted == SortedItems(st.label_map)
    IN [table       |-> parts[1],
        unique_col  |-> IF Len(labels_sorted) > 0 THEN labels_sorted[1][1] ELSE Unknown,
        unique_id   |-> IF Len(labels_sorted) > 0 THEN labels_sorted[1][2] ELSE Unknown,
        name_col    |-> IF Len(labels_sorted) > 1 THEN labels_sorted[2][1] ELSE Unknown,
        factor_name |-> IF Len(labels_sorted) > 1 THEN labels_sorted[2][2] ELSE Unknown,
        value_col   |-> st.value_col]

\* the metadata parsed from a column name (lines 228-246); a column name of a
\* table is a str, for which none of these operations raises
ParseColumn(col) ==
    LET parts == Split(col, ":")
    IN IF Len(parts) = 1
       THEN [table |-> <<"ARGUMENT">>, unique_col |-> col, unique_id |-> col,
             name_col |-> col, factor_name |-> col, value_col |-> col]
       ELSE LET st == ParseParts([label_map |-> <<>>, value_col |-> Unknown], Tail(parts))
                labels_sorted == SortedItems(st.label_map)
            IN [table       |-> parts[1],
                unique_col  |-> IF Len(labels_sorted) > 0 THEN labels_sorted[1][1] ELSE Unknown,
                unique_id   |-> IF Len(labels_sorted) > 0 THEN labels_sorted[1][2] ELSE Unknown,
                name_col    |-> IF Len(labels_sorted) > 1 THEN labels_sorted[2][1] ELSE Unknown,
                factor_name |-> IF Len(labels_sorted) > 1 THEN labels_sorted[2][2] ELSE Unknown,
                value_col   |-> st.value_col]

\* the dict appended to rows for one cell
LongRow(name, configuration, col, value) ==
    LET m == ParseColumn(col)
    IN [EXPERIMENT |-> name, CONFIGURATION |-> configuration, TABLE |-> m.table,
        COL_UNIQUEID |-> m.unique_col, COL_FACTOR |-> m.name_col, COL_VALUE |-> m.value_col,
        UNIQUE_IDENTIFIER |-> m.unique_id, FACTOR |-> m.factor_name, VALUES |-> value]

\* a flattening that walks the columns in the outer loop
FlattenByColumn(df, name) ==
    LET nr == Len(df.rows)
    IN [q \in 1..(nr * (Len(df.columns) - 2)) |->
           LET j == ((q - 1) \div nr) + 3
               r == ((q - 1) % nr) + 1
           IN LongRow(name, df.rows[r][2].s, df.columns[j], df.rows[r][j])]

\* the nested loop over df_doe.iterrows() and df_doe.columns
Flatten(df, name) ==
    LET nf == Len(df.columns) - 2
    IN [q \in 1..(Len(df.rows) * nf) |->
           LET r == ((q - 1) \div nf) + 1
               j == ((q - 1) % nf) + 3
           IN LongRow(name, df.rows[r][2].s, df.columns[j], df.rows[r][j])]

----------------------------------------------------------------------------
(* utils/factor_utils.py: doe_string_mapping *)

HasPrefix(key) == key # <<>> /\ key[1] = "factor-mapping_"

\* key.replace("factor-mapping_", "")
StripPrefix(key) == SelectSeq(key, LAMBDA c : c # "factor-mapping_")

\* the dict mappings built from the flow variables (lines 90-100)
RECURSIVE Mappings(_)
Mappings(flow_vars) ==
    IF flow_vars = <<>> THEN <<>>
    ELSE LET init == Mappings(SubSeq(flow_vars, 1, Len(flow_vars) - 1))
             kv   == flow_vars[Len(flow_vars)]
         IN IF HasPrefix(kv[1]) /\ JsonWellFormed(kv[2])
            THEN DictSet(init, StripPrefix(kv[1]), json_loads(kv[2]))
            ELSE init

\* mappings.get(name): the empty dict stands for None, both are falsy
MappingFor(mappings, name) == IF DictHas(mappings, name) THEN DictGet(mappings, name) ELSE <<>>

\* mapping.get(str(int(round(float(v)))), v)
Lookup(mapping, v) ==
    IF DictHas(mapping, RoundedCode(v)) THEN StrV(DictGet(mapping, RoundedCode(v))) ELSE v

\* a lookup name that is the whole column name
WholeName(col) == col

\* col.split(":")[-1]
Suffix(col) == LET parts == Split(col, ":") IN parts[Len(parts)]

\* axis=0: whether the lambda raises on some cell (float() of a string that spells
\* no number; nothing catches it)
WideRaises(df, mappings) ==
    \E j \in 1..Len(df.columns) :
        /\ df.columns[j] # <<"CONFIGURATION">>
        /\ MappingFor(mappings, Suffix(df.columns[j])) # <<>>
        /\ \E r \in 1..Len(df.rows) : notna(df.rows[r][j]) /\ ~FloatOk(df.rows[r][j])

\* axis=0: the table with every mapped column replaced
WideMapped(df, mappings) ==
    [columns |-> df.columns,
     rows |-> [r \in 1..Len(df.rows) |->
                 [j \in 1..Len(df.columns) |->
                     LET mapping == MappingFor(mappings, Suffix(df.columns[j]))
                         v == df.rows[r][j]
                     IN IF df.columns[j] # <<"CONFIGURATION">> /\ mapping # <<>> /\ notna(v)
                        THEN Lookup(mapping, v) ELSE v]]]

\* axis=1: replace_value(row); the bare except returns the cell as it is
replace_value(row, mappings) ==
    LET mapping == MappingFor(mappings, row.COL_VALUE)
    IN IF mapping # <<>> /\ FloatOk(row.VALUES) /\ notna(row.VALUES)
       THEN Lookup(mapping, row.VALUES) ELSE row.VALUES

LongMapped(rows, mappings) ==
    [q \in 1..Len(rows) |-> [rows[q] EXCEPT !.VALUES = replace_value(rows[q], mappings)]]

LongColumns == << "EXPERIMENT", "CONFIGURATION", "TABLE", "COL_UNIQUEID", "COL_FACTOR",
                  "COL_VALUE", "UNIQUE_IDENTIFIER", "FACTOR", "VALUES" >>

\* lines 269-272: VALUES as str, and the projection when every TABLE is ARGUMENT
Finalized(rows) ==
    [columns |-> IF \A q \in 1..Len(rows) : rows[q].TABLE = <<"ARGUMENT">>
                 THEN << "EXPERIMENT", "CONFIGURATION", "FACTOR", "VALUES" >>
                 ELSE LongColumns,
     rows |-> [q \in 1..Len(rows) |-> [rows[q] EXCEPT !.VALUES = StrV(PyStr(@))]]]

----------------------------------------------------------------------------
(* The workflow: Factor Definition nodes and other nodes feed tables into the *)
(* Design of Experiments node, which then executes once.                      *)

EmptyTable == [columns |-> <<>>, rows |-> <<>>]

Init ==
    /\ flow_variables = <<>>
    /\ input_tables = <<>>
    /\ pc = "workflow"
    /\ design_choice = "FULLFAC"
    /\ samples = DefaultSamples
    /\ lhs_iterations = DefaultIterations
    /\ factor_cols = <<>>
    /\ levels_map = <<>>
    /\ est_runs = 0
    /\ raw = <<>>
    /\ df_doe = EmptyTable
    /\ experiment_name = <<>>
    /\ df_long = <<>>
    /\ out_wide = EmptyTable
    /\ out_long = EmptyTable
    /\ error = NoError
    /\ log = <<>>

\* the settings of the Design of Experiments node that are explored; samples and
\* lhs_iterations keep their defaults where the strategy does not read them
Settings ==
    {[d |-> d, s |-> DefaultSamples, it |-> DefaultIterations] :
        d \in {"FULLFAC", "PLACKETTBURMAN", "RANDOMKMEANS"}}
    \cup {[d |-> "LHS", s |-> n, it |-> DefaultIterations] : n \in 0..MaxSamples}
    \cup {[d |-> "SPACEFILLINGLHS", s |-> n, it |-> i] : n \in 0..MaxSamples, i \in 1..MaxIterations}

\* FactorDefinitionDOE.execute of one upstream node
FactorDefinitionExecute ==
    /\ pc = "workflow"
    /\ Len(input_tables) < MaxTables
    /\ \E node \in NodeSettings :
          LET res == FactorDefinitionResult(node, flow_variables)
          IN /\ flow_variables' = res.flow
             /\ input_tables' = Append(input_tables, res.table)
    /\ UNCHANGED <<pc, design_choice, samples, lhs_iterations, factor_cols, levels_map,
                   est_runs, raw, df_doe, experiment_name, df_long, out_wide, out_long,
                   error, log>>

\* a table of another upstream node is wired in
RawTableArrives ==
    /\ pc = "workflow"
    /\ Len(input_tables) < MaxTables
    /\ \E t \in RawTables : input_tables' = Append(input_tables, t)
    /\ UNCHANGED <<flow_variables, pc, design_choice, samples, lhs_iterations, factor_cols,
                   levels_map, est_runs, raw, df_doe, experiment_name, df_long, out_wide,
                   out_long, error, log>>

\* execute, lines 93-132: the inputs are merged and the levels extracted, under
\* one of the given settings of the node
MergeWith(settings) ==
    /\ pc = "workflow"
    /\ \E cfg \in settings :
          /\ design_choice' = cfg.d
          /\ samples' = cfg.s
          /\ lhs_iterations' = cfg.it
    /\ LET st == MergeTables([merged |-> <<>>, seen |-> {}, log |-> <<>>], input_tables)
       IN /\ log' = st.log
          /\ IF st.merged = <<>>
             THEN /\ pc' = "failed"
                  /\ error' = Raise("No input data provided.", <<>>, 0, 0)
                  /\ UNCHANGED <<factor_cols, levels_map>>
             ELSE /\ pc' = "generate"
                  /\ factor_cols' = DictKeys(st.merged)
                  /\ levels_map' = LevelsMap(st.merged)
                  /\ UNCHANGED error
    /\ UNCHANGED <<flow_variables, input_tables, est_runs, raw, df_doe, experiment_name,
                   df_long, out_wide, out_long>>

Merge == MergeWith(Settings)

\* an off-by-one ceiling test
ExplodedAtCeiling(runs) == runs >= MaxRuns

\* est_runs > 1_000_000
Exploded(runs) == runs > MaxRuns

\* execute, lines 134-141: the full-factorial size check
FullfacCheck ==
    /\ pc = "generate"
    /\ design_choice = "FULLFAC"
    /\ est_runs' = Prod(LevelCounts(factor_cols, levels_map))
    /\ IF Exploded(est_runs')
       THEN /\ pc' = "failed"
            /\ error' = Raise("Full factorial would generate too many rows", <<>>,
                              est_runs', MaxRuns)
       ELSE /\ pc' = "fullfact"
            /\ UNCHANGED error
    /\ UNCHANGED <<flow_variables, input_tables, design_choice, samples, lhs_iterations,
                   factor_cols, levels_map, raw, df_doe, experiment_name, df_long,
                   out_wide, out_long, log>>

\* execute, lines 143-153: the full factorial, expanded while it has at most MaxRows rows
Fullfact ==
    /\ pc = "fullfact"
    /\ est_runs <= MaxRows
    /\ LET coded == py_fullfact(LevelCounts(factor_cols, levels_map))
           e == FirstEmpty(factor_cols, levels_map)
       IN /\ raw' = coded
          /\ IF e # 0
             THEN /\ pc' = "failed"
                  /\ error' = Raise("Factor has no defined levels.", factor_cols[e], 0, 0)
                  /\ UNCHANGED df_doe
             ELSE /\ pc' = "stamp"
                  /\ df_doe' = [columns |-> factor_cols,
                                rows |-> FullfacRows(factor_cols, levels_map, coded)]
                  /\ UNCHANGED error
    /\ UNCHANGED <<flow_variables, input_tables, design_choice, samples, lhs_iterations,
                   factor_cols, levels_map, est_runs, experiment_name, df_long, out_wide,
                   out_long, log>>

IsLhs(d) == d \in {"LHS", "SPACEFILLINGLHS"}

\* execute, lines 155-180: (space-filling) Latin hypercube sampling, expanded while
\* factors * samples is at most max_cells
LhsWithin(max_cells) ==
    /\ pc = "generate"
    /\ IsLhs(design_choice)
    /\ IF samples < 1
       THEN /\ pc' = "failed"
            /\ error' = Raise("Samples must be >= 1.", <<>>, samples, 1)
            /\ UNCHANGED <<raw, df_doe>>
       ELSE /\ Len(factor_cols) * samples <= max_cells
            /\ LET criterion == IF design_choice = "SPACEFILLINGLHS" THEN "maximin" ELSE "None"
                   iterations == IF criterion = "maximin" THEN lhs_iterations ELSE 1
                   e == FirstEmpty(factor_cols, levels_map)
               IN \E U \in py_lhs(Len(factor_cols), samples, criterion, iterations) :
                     /\ raw' = U
                     /\ IF e # 0
                        THEN /\ pc' = "failed"
                             /\ error' = Raise("Factor has no defined levels.",
                                               factor_cols[e], 0, 0)
                             /\ UNCHANGED df_doe
                        ELSE /\ pc' = "stamp"
                             /\ df_doe' = [columns |-> factor_cols,
                                           rows |-> LhsRows(factor_cols, levels_map, U,
                                                            LhsDen(samples))]
                             /\ UNCHANGED error
    /\ UNCHANGED <<flow_variables, input_tables, design_choice, samples, lhs_iterations,
                   factor_cols, levels_map, est_runs, experiment_name, df_long, out_wide,
                   out_long, log>>

Lhs == LhsWithin(MaxLhsCells)

\* execute, lines 182-208: Plackett-Burman; pbdesign is modelled for the run counts
\* that are powers of two
PlackettBurman ==
    /\ pc = "generate"
    /\ design_choice = "PLACKETTBURMAN"
    /\ LET k == FirstNotTwo(levels_map)
       IN IF k # 0
          THEN /\ pc' = "failed"
               /\ error' = Raise("Plackett-Burman requires exactly 2 distinct levels per factor.",
                                 levels_map[k][1],
                                 Cardinality({levels_map[k][2][m] : m \in 1..Len(levels_map[k][2])}),
                                 2)
               /\ UNCHANGED <<raw, df_doe>>
          ELSE /\ IsPow2(PbRows(Len(factor_cols)))
               /\ raw' = py_pb(Len(factor_cols))
               /\ df_doe' = [columns |-> factor_cols,
                             rows |-> PbRowsMapped(factor_cols, levels_map, raw')]
               /\ pc' = "stamp"
               /\ UNCHANGED error
    /\ UNCHANGED <<flow_variables, input_tables, design_choice, samples, lhs_iterations,
                   factor_cols, levels_map, est_runs, experiment_name, df_long, out_wide,
                   out_long, log>>

Supported == {"FULLFAC", "LHS", "SPACEFILLINGLHS", "PLACKETTBURMAN"}

\* an error that does not say which strategy was requested
UnsupportedDesignUnnamed(choice) == Raise("Design is not implemented in pyDOE3.", <<>>, 0, 0)

\* ValueError(f"Design {design_choice} is not implemented in pyDOE3.")
UnsupportedDesign(choice) == Raise("Design is not implemented in pyDOE3.", <<choice>>, 0, 0)

\* execute, lines 210-212: any other strategy name
Unsupported ==
    /\ pc = "generate"
    /\ design_choice \notin Supported
    /\ pc' = "failed"
    /\ error' = UnsupportedDesign(design_choice)
    /\ UNCHANGED <<flow_variables, input_tables, design_choice, samples, lhs_iterations,
                   factor_cols, levels_map, est_runs, raw, df_doe, experiment_name, df_long,
                   out_wide, out_long, log>>

\* execute, lines 214-217: the metadata columns
Stamp ==
    /\ pc = "stamp"
    /\ experiment_name' = <<"YYYY-MM-DD_HHMMSS", "_", design_choice>>
    /\ df_doe' = Stamped(df_doe.columns, df_doe.rows, experiment_name')
    /\ pc' = "flatten"
    /\ UNCHANGED <<flow_variables, input_tables, design_choice, samples, lhs_iterations,
                   factor_cols, levels_map, est_runs, raw, df_long, out_wide, out_long,
                   error, log>>

\* execute, lines 219-263: wide to long
FlattenDesign ==
    /\ pc = "flatten"
    /\ df_long' = Flatten(df_doe, experiment_name)
    /\ pc' = "resolve_wide"
    /\ UNCHANGED <<flow_variables, input_tables, design_choice, samples, lhs_iterations,
                   factor_cols, levels_map, est_runs, raw, df_doe, experiment_name,
                   out_wide, out_long, error, log>>

\* execute, line 266: doe_string_mapping(df_doe, flow_variables, axis=0)
ResolveWide ==
    /\ pc = "resolve_wide"
    /\ LET mappings == Mappings(flow_variables)
       IN IF WideRaises(df_doe, mappings)
          THEN /\ pc' = "failed"
               /\ error' = Raise("ValueError: could not convert string to float", <<>>, 0, 0)
               /\ UNCHANGED out_wide
          ELSE /\ pc' = "resolve_long"
               /\ out_wide' = WideMapped(df_doe, mappings)
               /\ UNCHANGED error
    /\ UNCHANGED <<flow_variables, input_tables, design_choice, samples, lhs_iterations,
                   factor_cols, levels_map, est_runs, raw, df_doe, experiment_name,
                   df_long, out_long, log>>

\* execute, line 267: doe_string_mapping(df_long, flow_variables, axis=1)
ResolveLong ==
    /\ pc = "resolve_long"
    /\ out_long' = [columns |-> LongColumns,
                    rows |-> LongMapped(df_long, Mappings(flow_variables))]
    /\ pc' = "finalize"
    /\ UNCHANGED <<flow_variables, input_tables, design_choice, samples, lhs_iterations,
                   factor_cols, levels_map, est_runs, raw, df_doe, experiment_name,
                   df_long, out_wide, error, log>>

\* execute, lines 269-275: string VALUES, the projection, and the return
Finish ==
    /\ pc = "finalize"
    /\ out_long' = Finalized(out_long.rows)
    /\ pc' = "done"
    /\ UNCHANGED <<flow_variables, input_tables, design_choice, samples, lhs_iterations,
                   factor_cols, levels_map, est_runs, raw, df_doe, experiment_name,
                   df_long, out_wide, error, log>>

Next ==
    \/ FactorDefinitionExecute
    \/ RawTableArrives
    \/ Merge
    \/ FullfacCheck
    \/ Fullfact
    \/ Lhs
    \/ PlackettBurman
    \/ Unsupported
    \/ Stamp
    \/ FlattenDesign
    \/ ResolveWide
    \/ ResolveLong
    \/ Finish

Spec == Init /\ [][Next]_vars

----------------------------------------------------------------------------
(* Latin hypercube runs with more samples than Spec expands: one argument-based *)
(* two-level factor is wired in and sampled StrataSamples times.               *)

StrataSamples == 4

StrataNodes == {node \in NodeSettings :
                   /\ node.factor_input_type = "ARGUMENTBASED"
                   /\ Len(get_values(node, <<>>, ValueColumn(node)).values) = 2}

StrataSettings ==
    {[d |-> d, s |-> StrataSamples, it |-> DefaultIterations] : d \in {"LHS", "SPACEFILLINGLHS"}}

\* the workflow after one Factor Definition node has executed
InitStrata ==
    /\ \E node \in StrataNodes :
          LET res == FactorDefinitionResult(node, <<>>)
          IN /\ flow_variables = res.flow
             /\ input_tables = <<res.table>>
    /\ pc = "workflow"
    /\ design_choice = "FULLFAC"
    /\ samples = DefaultSamples
    /\ lhs_iterations = DefaultIterations
    /\ factor_cols = <<>>
    /\ levels_map = <<>>
    /\ est_runs = 0
    /\ raw = <<>>
    /\ df_doe = EmptyTable
    /\ experiment_name = <<>>
    /\ df_long = <<>>
    /\ out_wide = EmptyTable
    /\ out_long = EmptyTable
    /\ error = NoError
    /\ log = <<>>

MergeStrata == MergeWith(StrataSettings)

LhsStrata == LhsWithin(StrataSamples)

NextStrata ==
    \/ MergeStrata
    \/ LhsStrata
    \/ Stamp
    \/ FlattenDesign
    \/ ResolveWide
    \/ ResolveLong
    \/ Finish

SpecStrata == InitStrata /\ [][NextStrata]_vars

----------------------------------------------------------------------------
(* The configuration ids of designs too large to expand.  A Latin hypercube    *)
(* design has as many rows as samples were requested; df_doe holds the row     *)
(* that line 217 is numbering, without its factor cells.                       *)

IdWindow == 30

\* sample counts around the first row index of ConfigWidth + 1 digits
LargeSampleCounts == {1, DefaultSamples, 10^ConfigWidth, 10^ConfigWidth + 1}

\* the first and the last IdWindow row indexes of a design of n rows
WindowIndexes(n) == {i \in 0..(IdWindow - 1) : i < n}
                    \cup {i \in (n - IdWindow)..(n - 1) : i >= 0}

InitIds ==
    /\ flow_variables = <<>>
    /\ input_tables = <<>>
    /\ pc = "stamp"
    /\ design_choice \in {"LHS", "SPACEFILLINGLHS"}
    /\ samples \in LargeSampleCounts
    /\ lhs_iterations = DefaultIterations
    /\ factor_cols = <<>>
    /\ levels_map = <<>>
    /\ est_runs = 0
    /\ raw = <<>>
    /\ df_doe = EmptyTable
    /\ experiment_name = <<>>
    /\ df_long = <<>>
    /\ out_wide = EmptyTable
    /\ out_long = EmptyTable
    /\ error = NoError
    /\ log = <<>>

\* execute, line 217: the id of one row of range(len(df_doe))
StampRow ==
    /\ pc = "stamp"
    /\ experiment_name' = <<"YYYY-MM-DD_HHMMSS", "_", design_choice>>
    /\ \E i \in WindowIndexes(samples) :
          df_doe' = [columns |-> <<<<"EXPERIMENT">>, <<"CONFIGURATION">>>>,
                     rows |-> <<StampedRow(experiment_name', i, <<>>)>>]
    /\ UNCHANGED <<flow_variables, input_tables, pc, design_choice, samples, lhs_iterations,
                   factor_cols, levels_map, est_runs, raw, df_long, out_wide, out_long,
                   error, log>>

NextIds == StampRow

SpecIds == InitIds /\ [][NextIds]_vars

----------------------------------------------------------------------------
(* Properties *)

\* the design has been generated (the run may still fail while resolving labels)
Resolving == error.kind = "ValueError: could not convert string to float"

Generated == pc \in {"stamp", "flatten", "resolve_wide", "resolve_long", "finalize", "done"}
             \/ (pc = "failed" /\ Resolving)

Flattened == pc \in {"resolve_wide", "resolve_long", "finalize", "done"}
             \/ (pc = "failed" /\ Resolving)

NoDesign == df_doe = EmptyTable /\ df_long = <<>> /\ out_wide = EmptyTable
            /\ out_long = EmptyTable

\* the level list of factor j, and the cell of factor j in row r of the design
LevelsOf(j) == DictGet(levels_map, factor_cols[j])
FactorCell(r, j) == IF pc = "stamp" THEN df_doe.rows[r][j] ELSE df_doe.rows[r][j + 2]
FactorCells(r) == [j \in 1..Len(factor_cols) |-> FactorCell(r, j)]
SeqSet(seq) == {seq[k] : k \in 1..Len(seq)}
\* the position of level v in the level list of factor j
LevelIndex(j, v) == CHOOSE k \in 1..Len(LevelsOf(j)) : LevelsOf(j)[k] = v

\* C1: a full factorial over k factors with n1..nk levels has n1*...*nk rows and,
\* once stamped, k+2 columns (EXPERIMENT, CONFIGURATION and the k factors); no two
\* rows hold the same combination and the rows are the cartesian product of the
\* level lists.
C1_FullFactorialIsProduct ==
    (design_choice = "FULLFAC" /\ Generated) =>
        LET k == Len(factor_cols)
            values == UNION {SeqSet(LevelsOf(j)) : j \in 1..k}
            rows == df_doe.rows
        IN /\ \A j \in 1..k : Len(LevelsOf(j)) >= 1
           /\ Len(rows) = Prod([j \in 1..k |-> Len(LevelsOf(j))])
           /\ Len(rows) <= MaxRuns
           /\ pc # "stamp" =>
                 /\ df_doe.columns = <<<<"EXPERIMENT">>, <<"CONFIGURATION">>>> \o factor_cols
                 /\ \A r \in 1..Len(rows) : Len(rows[r]) = k + 2
           /\ \A r1, r2 \in 1..Len(rows) : r1 # r2 => FactorCells(r1) # FactorCells(r2)
           /\ {FactorCells(r) : r \in 1..Len(rows)}
                 = {f \in [1..k -> values] : \A j \in 1..k : f[j] \in SeqSet(LevelsOf(j))}

C1_Witness ==
    /\ pc = "done"
    /\ design_choice = "FULLFAC"
    /\ Len(factor_cols) = 2
    /\ Len(LevelsOf(1)) = 2
    /\ Len(LevelsOf(2)) = 3
    /\ Len(df_doe.rows) = 6

\* C2 (as claimed): the rows of a full factorial are in lexicographic order of the
\* level indices with the first factor slowest and the last factor fastest.
C2_LastFactorFastest ==
    (design_choice = "FULLFAC" /\ Generated) =>
        \A r1, r2 \in 1..Len(df_doe.rows) :
            r1 < r2 =>
                \E j \in 1..Len(factor_cols) :
                    /\ \A h \in 1..(j - 1) : FactorCell(r1, h) = FactorCell(r2, h)
                    /\ LevelIndex(j, FactorCell(r1, j)) < LevelIndex(j, FactorCell(r2, j))

\* C2 (amended): the rows of a full factorial are ordered with the first factor
\* fastest and the last factor slowest, and row i (from 0) is numbered
\* configuration_<i zero padded>: for speed=[1,2], color=[0,1] the rows are
\* (1,0),(2,0),(1,1),(2,1).
C2_FirstFactorFastest ==
    (design_choice = "FULLFAC" /\ Generated) =>
        /\ \A r1, r2 \in 1..Len(df_doe.rows) :
              r1 < r2 =>
                  \E j \in 1..Len(factor_cols) :
                      /\ \A h \in (j + 1)..Len(factor_cols) : FactorCell(r1, h) = FactorCell(r2, h)
                      /\ LevelIndex(j, FactorCell(r1, j)) < LevelIndex(j, FactorCell(r2, j))
        /\ pc # "stamp" =>
              \A r \in 1..Len(df_doe.rows) :
                  df_doe.rows[r][2] = StrV(<<"configuration_">> \o ZeroPad(IntStr(r - 1), 6))

C2_Witness ==
    /\ pc = "done"
    /\ design_choice = "FULLFAC"
    /\ factor_cols = << <<"w">>, <<"v">> >>
    /\ [r \in 1..4 |-> FactorCells(r)]
          = << <<IntV(1), IntV(0)>>, <<IntV(2), IntV(0)>>, <<IntV(1), IntV(1)>>,
               <<IntV(2), IntV(1)>> >>
    /\ [r \in 1..4 |-> <<out_wide.rows[r][2].s, out_wide.rows[r][3], out_wide.rows[r][4]>>]
          = << <<<<"configuration_", "0", "0", "0", "0", "0", "0">>, IntV(1), StrV(<<"red">>)>>,
               <<<<"configuration_", "0", "0", "0", "0", "0", "1">>, IntV(2), StrV(<<"red">>)>>,
               <<<<"configuration_", "0", "0", "0", "0", "0", "2">>, IntV(1), StrV(<<"blue">>)>>,
               <<<<"configuration_", "0", "0", "0", "0", "0", "3">>, IntV(2), StrV(<<"blue">>)>> >>

\* C3 (as claimed): when a STRING factor with labels s0..s(n-1) was encoded by
\* get_values and its reverse map is the one stored under factor-mapping_<value
\* column>, every cell of that factor whose generated code is i shows s_i in the
\* returned wide table and in the VALUES cell of the returned long table.
C3_RoundTrip ==
    pc = "done" =>
        \A node \in NodeSettings :
            LET value_col == ValueColumn(node)
                labels == node.string_configuration
                table == FactorDefinitionResult(node, <<>>).table.cols
                nf == Len(factor_cols)
            IN (/\ node.factor_data_type = "STRING"
                /\ DictHas(flow_variables, MappingKey(value_col))
                /\ DictGet(flow_variables, MappingKey(value_col))
                      = json_dumps(factor_string_mapping(labels).mapping)) =>
                   \A c \in 1..Len(table), j \in 1..nf :
                       (factor_cols[j] = table[c][1] /\ LevelsOf(j) = table[c][2]) =>
                           \A r \in 1..Len(df_doe.rows) :
                               LET code == FactorCell(r, j)
                               IN (code.t = "int" /\ code.i >= 0 /\ code.i < Len(labels)) =>
                                      /\ out_wide.rows[r][j + 2] = StrV(labels[code.i + 1])
                                      /\ out_long.rows[(r - 1) * nf + j].VALUES
                                            = StrV(labels[code.i + 1])

\* C4: the long table has R*(C-2) rows for a wide design of R rows and C columns;
\* the long row of (row r, factor column j) is at position (r-1)*(C-2)+j, carries
\* the configuration id of row r, the metadata of column j and the wide cell's
\* value; the returned long table keeps that many rows in that order.
C4_FlattenIsTotalAndOrdered ==
    Flattened =>
        LET R == Len(df_doe.rows)
            C == Len(df_doe.columns)
        IN /\ Len(df_long) = R * (C - 2)
           /\ \A r \in 1..R, j \in 1..(C - 2) :
                 LET row == df_long[(r - 1) * (C - 2) + j]
                     m == ParseColumn(df_doe.columns[j + 2])
                 IN /\ row.EXPERIMENT = df_doe.rows[r][1].s
                    /\ row.CONFIGURATION = df_doe.rows[r][2].s
                    /\ row.VALUES = df_doe.rows[r][j + 2]
                    /\ row.TABLE = m.table /\ row.FACTOR = m.factor_name
                    /\ row.COL_VALUE = m.value_col
           /\ pc \in {"finalize", "done"} =>
                 /\ Len(out_long.rows) = R * (C - 2)
                 /\ \A q \in 1..Len(df_long) :
                       out_long.rows[q].CONFIGURATION = df_long[q].CONFIGURATION

C4_Witness ==
    /\ pc = "done"
    /\ Len(df_doe.rows) = 4
    /\ Len(df_doe.columns) = 5
    /\ Len(df_long) = 12
    /\ df_long[5].CONFIGURATION = <<"configuration_", "0", "0", "0", "0", "0", "1">>
    /\ df_long[5].VALUES = df_doe.rows[2][4]

\* the run got past the merge of its inputs and left the generation stage
PastGeneration ==
    pc \notin {"workflow", "generate"} /\ error.kind # "No input data provided."

\* the product of the level counts of the merged factors
LevelProduct == Prod([j \in 1..Len(factor_cols) |-> Len(LevelsOf(j))])

TooManyRows == error.kind = "Full factorial would generate too many rows"

\* C5: when the product of the level counts exceeds 1,000,000 FULLFAC fails before
\* any row is generated, no table is built, and the error carries the computed row
\* count and the ceiling 1,000,000; a product of at most 1,000,000 (exactly
\* 1,000,000 included) is not rejected by this check.
C5_ExplosionCeiling ==
    (design_choice = "FULLFAC" /\ PastGeneration) =>
        IF LevelProduct > 1000000
        THEN /\ pc = "failed" /\ TooManyRows
             /\ error.n = LevelProduct /\ error.limit = 1000000
             /\ raw = <<>> /\ NoDesign
        ELSE ~TooManyRows

C5_Witness ==
    /\ pc = "failed"
    /\ TooManyRows
    /\ design_choice = "FULLFAC"
    /\ LevelProduct = 2000000
    /\ error.n = 2000000

\* C6: LHS and SPACEFILLINGLHS with samples = N >= 1 yield exactly N rows; the cell
\* of a factor with L levels is the level of index i, where i <= u*L < i+1 for the
\* unit coordinate u, or i = L-1 when u*L reaches L (u = 1); with samples < 1 the
\* run fails and no design exists.
C6_LhsRowsAreLevels ==
    IsLhs(design_choice) =>
        /\ Generated =>
              /\ samples >= 1
              /\ lhs_iterations >= 1
              /\ Len(df_doe.rows) = samples
              /\ \A r \in 1..Len(df_doe.rows), j \in 1..Len(factor_cols) :
                    LET L == Len(LevelsOf(j))
                        den == samples * LhsSubdiv
                        u == raw[r][j]
                    IN /\ 0 <= u /\ u <= den
                       /\ FactorCell(r, j) \in SeqSet(LevelsOf(j))
                       /\ \E i \in 0..(L - 1) :
                             /\ FactorCell(r, j) = LevelsOf(j)[i + 1]
                             /\ \/ i * den <= u * L /\ u * L < (i + 1) * den
                                \/ i = L - 1 /\ u * L >= L * den
        /\ (samples < 1 /\ PastGeneration) =>
              /\ pc = "failed"
              /\ error.kind = "Samples must be >= 1."
              /\ raw = <<>> /\ NoDesign

C6_Witness ==
    /\ pc = "done"
    /\ design_choice = "SPACEFILLINGLHS"
    /\ samples = 2
    /\ Len(df_doe.rows) = 2
    /\ \E r \in 1..2, j \in 1..Len(factor_cols) :
          /\ raw[r][j] = 2 * LhsSubdiv
          /\ Len(LevelsOf(j)) = 3
          /\ FactorCell(r, j) = LevelsOf(j)[3]

\* the factors whose level list is not made of exactly 2 distinct levels
Offending == {j \in 1..Len(factor_cols) : Cardinality(SeqSet(LevelsOf(j))) # 2}

WrongCardinality ==
    error.kind = "Plackett-Burman requires exactly 2 distinct levels per factor."

\* C7: PLACKETTBURMAN fails without a design when some factor does not have
\* exactly 2 distinct levels, and the error names the first such factor in factor
\* order; when every factor has exactly 2 distinct levels that error is not raised
\* and a design is produced.
C7_PlackettBurmanNeedsTwoLevels ==
    (design_choice = "PLACKETTBURMAN" /\ PastGeneration) =>
        IF Offending # {}
        THEN /\ pc = "failed" /\ WrongCardinality
             /\ \E j \in Offending :
                   /\ \A h \in Offending : j <= h
                   /\ error.col = factor_cols[j]
             /\ raw = <<>> /\ NoDesign
        ELSE /\ ~WrongCardinality
             /\ Generated
             /\ df_doe.rows # <<>>

C7_Witness ==
    /\ pc = "failed"
    /\ WrongCardinality
    /\ Len(factor_cols) = 2
    /\ Offending = {2}
    /\ error.col = factor_cols[2]
    /\ Len(LevelsOf(2)) = 3

\* C8: in a PLACKETTBURMAN design every row has one cell per factor, every cell is
\* one of the factor's two levels, and in every row the code -1 stands for the
\* minimum (numeric factor) or the first-declared level (non-numeric factor) and
\* the code +1 for the maximum / second-declared level.
C8_PlackettBurmanLowHigh ==
    (design_choice = "PLACKETTBURMAN" /\ Generated) =>
        \A r \in 1..Len(df_doe.rows) :
            /\ Len(df_doe.rows[r]) = Len(factor_cols) + (IF pc = "stamp" THEN 0 ELSE 2)
            /\ Len(raw) = Len(df_doe.rows)
            /\ \A j \in 1..Len(factor_cols) :
                  LET lvls == LevelsOf(j)
                      numeric == \A k \in 1..Len(lvls) : lvls[k].t = "int"
                      low == IF numeric
                             THEN CHOOSE v \in SeqSet(lvls) : \A w \in SeqSet(lvls) : v.i <= w.i
                             ELSE lvls[1]
                      high == IF numeric
                              THEN CHOOSE v \in SeqSet(lvls) : \A w \in SeqSet(lvls) : v.i >= w.i
                              ELSE lvls[2]
                  IN /\ FactorCell(r, j) \in SeqSet(lvls)
                     /\ raw[r][j] \in {-1, 1}
                     /\ raw[r][j] = -1 => FactorCell(r, j) = low
                     /\ raw[r][j] = 1 => FactorCell(r, j) = high

C8_Witness ==
    /\ pc = "done"
    /\ design_choice = "PLACKETTBURMAN"
    /\ \E j \in 1..Len(factor_cols) :
          /\ LevelsOf(j) = <<IntV(2), IntV(1)>>
          /\ \E r1, r2 \in 1..Len(df_doe.rows) :
                /\ raw[r1][j] = -1 /\ FactorCell(r1, j) = IntV(1)
                /\ raw[r2][j] = 1 /\ FactorCell(r2, j) = IntV(2)

\* C9 (as claimed): label resolution never raises and never aborts the run, in
\* wide as in long mode; a cell that converts to no number, a missing cell and a
\* cell whose rounded code is not in the map come back unchanged.
C9_ResolutionIsBestEffort ==
    /\ ~(pc = "failed" /\ Resolving)
    /\ pc \in {"resolve_long", "finalize", "done"} =>
          \A r \in 1..Len(df_doe.rows), j \in 1..Len(df_doe.columns) :
              LET v == df_doe.rows[r][j]
                  mapping == MappingFor(Mappings(flow_variables), Suffix(df_doe.columns[j]))
              IN (~notna(v) \/ ~FloatOk(v) \/ ~DictHas(mapping, RoundedCode(v))) =>
                     out_wide.rows[r][j] = v
    /\ pc = "finalize" =>
          \A q \in 1..Len(df_long) :
              LET v == df_long[q].VALUES
                  mapping == MappingFor(Mappings(flow_variables), df_long[q].COL_VALUE)
              IN (~notna(v) \/ ~FloatOk(v) \/ ~DictHas(mapping, RoundedCode(v))) =>
                     out_long.rows[q].VALUES = v

\* the segments of a column name after the first, split at the colons
LaterSegments(col) == Tail(Split(col, ":"))
\* a segment that opens a bracket and closes it
Bracketed(seg) == seg # <<>> /\ seg[1] = "[" /\ \E k \in 1..Len(seg) : seg[k] = "]"
\* the distinct labels of a column name, upper-cased
LabelsOf(col) ==
    {Upper(SubSeq(seg, 2, Find(seg, "]") - 1)) :
        seg \in {x \in SeqSet(LaterSegments(col)) : Bracketed(x)}}

\* C10: flattening emits one long row for every configuration of every factor
\* column, also for a malformed name; the descriptive fields that the name does
\* not yield hold "?": identifier column and identifier when there is no
\* bracketed label, name column and factor when there are fewer than two, value
\* column when no later segment is unbracketed; and flattening never ends the run.
C10_MalformedNamesFlatten ==
    /\ pc = "failed" => error.kind # "Failed to parse column name"
    /\ Flattened =>
          LET nf == Len(factor_cols)
          IN /\ nf = Len(df_doe.columns) - 2
             /\ \A j \in 1..nf :
                   LET col == factor_cols[j]
                       mine == {q \in 1..Len(df_long) : (q - 1) % nf = j - 1}
                   IN /\ {df_long[q].CONFIGURATION : q \in mine}
                            = {df_doe.rows[r][2].s : r \in 1..Len(df_doe.rows)}
                      /\ Cardinality(mine) = Len(df_doe.rows)
                      /\ Find(col, ":") # 0 =>
                            \A q \in mine :
                                /\ Cardinality(LabelsOf(col)) = 0 =>
                                      /\ df_long[q].COL_UNIQUEID = <<"?">>
                                      /\ df_long[q].UNIQUE_IDENTIFIER = <<"?">>
                                /\ Cardinality(LabelsOf(col)) < 2 =>
                                      /\ df_long[q].COL_FACTOR = <<"?">>
                                      /\ df_long[q].FACTOR = <<"?">>
                                /\ (\A k \in 1..Len(LaterSegments(col)) :
                                        Bracketed(LaterSegments(col)[k])) =>
                                      df_long[q].COL_VALUE = <<"?">>
                                /\ Cardinality(LabelsOf(col)) >= 1 =>
                                      df_long[q].COL_UNIQUEID \in LabelsOf(col)

C10_Witness ==
    /\ pc = "done"
    /\ factor_cols = << <<"T", ":", "[", "U", "a", ":", "w">>, <<"T", ":", "[", "n", "]", "b">> >>
    /\ Len(df_long) = 2 * Len(df_doe.rows)
    /\ df_long[1].COL_UNIQUEID = <<"?">> /\ df_long[1].UNIQUE_IDENTIFIER = <<"?">>
    /\ df_long[1].COL_FACTOR = <<"?">> /\ df_long[1].FACTOR = <<"?">>
    /\ df_long[1].COL_VALUE = <<"w">>
    /\ df_long[2].COL_UNIQUEID = <<"N">> /\ df_long[2].UNIQUE_IDENTIFIER = <<"b">>
    /\ df_long[2].COL_FACTOR = <<"?">> /\ df_long[2].FACTOR = <<"?">>
    /\ df_long[2].COL_VALUE = <<"?">>

\* the factor column that long row q was flattened from
ColumnOf(q) == factor_cols[((q - 1) % Len(factor_cols)) + 1]

\* C11 (as claimed): every key T:[U]u:[N]n:V that a table-based Factor Definition
\* node serialises is parsed back by the flattener into TABLE = T,
\* COL_UNIQUEID = U, UNIQUE_IDENTIFIER = u, COL_FACTOR = N, FACTOR = n and
\* COL_VALUE = V.
C11_FactorKeyRoundTrip ==
    Flattened =>
        \A node \in NodeSettings :
            node.factor_input_type = "TABLEBASED" =>
                \A k \in 1..Len(node.input_1), q \in 1..Len(df_long) :
                    LET c == node.input_1[k]
                    IN (/\ RowPresent(c)
                        /\ ColumnOf(q) = FactorKey(node.table_name, node.unique_identifier, c[1],
                                                   node.factor_name, c[2], ValueColumn(node))) =>
                           /\ df_long[q].TABLE = node.table_name
                           /\ df_long[q].COL_UNIQUEID = node.unique_identifier
                           /\ df_long[q].UNIQUE_IDENTIFIER = c[1].s
                           /\ df_long[q].COL_FACTOR = node.factor_name
                           /\ df_long[q].FACTOR = c[2].s
                           /\ df_long[q].COL_VALUE = ValueColumn(node)

\* the labels of the bracketed later segments of a column name, as F shows them
LabelSet(col, F(_)) ==
    {F(SubSeq(seg, 2, Find(seg, "]") - 1)) :
        seg \in {x \in SeqSet(LaterSegments(col)) : Bracketed(x)}}

\* the value that the last segment with label L carries
LabelValue(col, F(_), L) ==
    LET segs == LaterSegments(col)
        last == CHOOSE k \in 1..Len(segs) :
                    /\ Bracketed(segs[k]) /\ F(SubSeq(segs[k], 2, Find(segs[k], "]") - 1)) = L
                    /\ \A h \in (k + 1)..Len(segs) :
                          ~(Bracketed(segs[h])
                            /\ F(SubSeq(segs[h], 2, Find(segs[h], "]") - 1)) = L)
    IN SubSeq(segs[last], Find(segs[last], "]") + 1, Len(segs[last]))

\* the long rows of every column name with a colon follow the grammar, the
\* labels being read through F
GrammarHolds(F(_)) ==
    \A q \in 1..Len(df_long) :
        LET col == ColumnOf(q)
            row == df_long[q]
            segs == LaterSegments(col)
            labs == LabelSet(col, F)
            plain == {k \in 1..Len(segs) : ~Bracketed(segs[k])}
            Rank(L) == Cardinality({M \in labs : StrLess(M, L)})
        IN Find(col, ":") # 0 =>
               /\ row.TABLE = Split(col, ":")[1]
               /\ row.COL_VALUE = IF plain = {} THEN <<"?">>
                                  ELSE segs[CHOOSE k \in plain : \A h \in plain : h <= k]
               /\ \A L \in labs :
                     /\ Rank(L) = 0 => /\ row.COL_UNIQUEID = L
                                       /\ row.UNIQUE_IDENTIFIER = LabelValue(col, F, L)
                     /\ Rank(L) = 1 => /\ row.COL_FACTOR = L
                                       /\ row.FACTOR = LabelValue(col, F, L)
               /\ labs = {} => row.COL_UNIQUEID = <<"?">> /\ row.UNIQUE_IDENTIFIER = <<"?">>
               /\ Cardinality(labs) < 2 => row.COL_FACTOR = <<"?">> /\ row.FACTOR = <<"?">>

AsWritten(label) == label

C13_ArgumentColumns ==
    Flattened =>
        \A q \in 1..Len(df_long) :
            LET col == ColumnOf(q)
                row == df_long[q]
            IN Find(col, ":") = 0 =>
                   /\ row.TABLE = <<"ARGUMENT">>
                   /\ row.COL_UNIQUEID = col /\ row.UNIQUE_IDENTIFIER = col
                   /\ row.COL_FACTOR = col /\ row.FACTOR = col
                   /\ row.COL_VALUE = col

C13_Witness ==
    /\ pc = "done"
    /\ factor_cols = << <<"w">>, <<"v">> >>
    /\ df_long[2].TABLE = <<"ARGUMENT">>
    /\ df_long[2].COL_UNIQUEID = <<"v">> /\ df_long[2].UNIQUE_IDENTIFIER = <<"v">>
    /\ df_long[2].COL_FACTOR = <<"v">> /\ df_long[2].FACTOR = <<"v">>
    /\ df_long[2].COL_VALUE = <<"v">>

\* C14 (as claimed): the returned long table has the four columns EXPERIMENT,
\* CONFIGURATION, FACTOR, VALUES exactly when every long row has
\* TABLE = "ARGUMENT", and all nine columns otherwise; when it is projected every
\* factor name is free of colons and every dropped descriptive field of a row
\* equals the row's FACTOR.
C14_ProjectionDropsOnlyVacuous ==
    pc = "done" =>
        LET all_argument == \A q \in 1..Len(df_long) : df_long[q].TABLE = <<"ARGUMENT">>
            projected == out_long.columns = << "EXPERIMENT", "CONFIGURATION", "FACTOR", "VALUES" >>
        IN /\ projected <=> all_argument
           /\ ~projected => out_long.columns = LongColumns
           /\ projected =>
                 \A q \in 1..Len(out_long.rows) :
                     LET row == out_long.rows[q]
                     IN /\ Find(ColumnOf(q), ":") = 0
                        /\ row.COL_UNIQUEID = row.FACTOR
                        /\ row.UNIQUE_IDENTIFIER = row.FACTOR
                        /\ row.COL_FACTOR = row.FACTOR
                        /\ row.COL_VALUE = row.FACTOR

\* the text after the last colon of a column name, the whole name without one
AfterLastColon(col) ==
    LET colons == {k \in 1..Len(col) : col[k] = ":"}
    IN IF colons = {} THEN col
       ELSE SubSeq(col, (CHOOSE k \in colons : \A h \in colons : h <= k) + 1, Len(col))

WideResolved == pc \in {"resolve_long", "finalize", "done"}

\* C15: in wide mode every data column is looked up under the text after the last
\* colon of its name; with a map, a cell whose rounded code (as a string) is a key
\* is replaced by the label, a cell without an entry and a missing cell stay as
\* they are; a column without a map stays as it is.
C15_WideLookupBySuffix ==
    WideResolved =>
        /\ out_wide.columns = df_doe.columns
        /\ Len(out_wide.rows) = Len(df_doe.rows)
        /\ \A r \in 1..Len(df_doe.rows), j \in 1..Len(df_doe.columns) :
              LET v == df_doe.rows[r][j]
                  mapping == MappingFor(Mappings(flow_variables),
                                        AfterLastColon(df_doe.columns[j]))
              IN IF /\ df_doe.columns[j] # <<"CONFIGURATION">>
                    /\ mapping # <<>> /\ notna(v)
                    /\ DictHas(mapping, RoundedCode(v))
                 THEN out_wide.rows[r][j] = StrV(DictGet(mapping, RoundedCode(v)))
                 ELSE out_wide.rows[r][j] = v

C15_Witness ==
    /\ pc = "done"
    /\ \E j \in 1..Len(factor_cols), r1, r2 \in 1..Len(df_doe.rows) :
          /\ Find(factor_cols[j], ":") # 0
          /\ AfterLastColon(factor_cols[j]) = <<"v">>
          /\ df_doe.rows[r1][j + 2] = IntV(0) /\ out_wide.rows[r1][j + 2] = StrV(<<"red">>)
          /\ df_doe.rows[r2][j + 2] = IntV(2) /\ out_wide.rows[r2][j + 2] = IntV(2)

\* C16 (as claimed): the reverse map that get_values stored for a STRING factor
\* under factor-mapping_<c> is what the resolver retrieves under the name c, and
\* every name under which the resolver retrieves a map is a name c whose key
\* factor-mapping_<c> holds that map.
C16_MapRetrievedUnderItsName ==
    LET mappings == Mappings(flow_variables)
    IN /\ \A node \in NodeSettings :
             LET c == ValueColumn(node)
                 stored == json_dumps(factor_string_mapping(node.string_configuration).mapping)
             IN (/\ node.factor_data_type = "STRING"
                 /\ DictHas(flow_variables, MappingKey(c))
                 /\ DictGet(flow_variables, MappingKey(c)) = stored) =>
                    /\ DictHas(mappings, c)
                    /\ DictGet(mappings, c)
                          = factor_string_mapping(node.string_configuration).mapping
       /\ \A name \in SeqSet(DictKeys(mappings)) :
             /\ DictHas(flow_variables, MappingKey(name))
             /\ DictGet(mappings, name) = json_loads(DictGet(flow_variables, MappingKey(name)))

\* the cells 0, 1, ..., n-1
CodeColumn(n) == [k \in 1..n |-> IntV(k - 1)]

\* C17: for every reverse map in the flow variables there is a STRING factor with
\* n labels that wrote it: the map has exactly the n keys "0".."n-1" in this
\* order, key str(i) holds the i-th label as given (unsorted, repeated labels
\* kept), and the factor's table holds the codes 0, 1, ..., n-1 in input order.
C17_CodesArePositions ==
    \A e \in 1..Len(flow_variables) :
        \E node \in NodeSettings :
            LET labels == node.string_configuration
                n == Len(labels)
                m == json_loads(flow_variables[e][2])
            IN /\ node.factor_data_type = "STRING"
               /\ flow_variables[e][1] = <<"factor-mapping_">> \o ValueColumn(node)
               /\ Len(m) = n
               /\ \A i \in 0..(n - 1) : m[i + 1] = <<IntStr(i), labels[i + 1]>>
               /\ \E t \in 1..Len(input_tables) :
                     /\ input_tables[t].cols # <<>>
                     /\ \A c \in 1..Len(input_tables[t].cols) :
                           /\ AfterLastColon(input_tables[t].cols[c][1])
                                 = AfterLastColon(ValueColumn(node))
                           /\ input_tables[t].cols[c][2] = CodeColumn(n)

C17_Witness ==
    /\ pc = "done"
    /\ \E e \in 1..Len(flow_variables) :
          /\ flow_variables[e][1] = <<"factor-mapping_", "factor-mapping_", "z">>
          /\ json_loads(flow_variables[e][2])
                = << <<<<"0">>, <<"p">>>>, <<<<"1">>, <<"q">>>>, <<<<"2">>, <<"p">>>> >>
    /\ factor_cols = << <<"factor-mapping_", "z">> >>
    /\ LevelsOf(1) = <<IntV(0), IntV(1), IntV(2)>>

\* a configuration id whose number is i: configuration_ followed by zeros and
\* the decimal digits of i
IsIdOf(id, i) ==
    /\ Len(id) >= 2 /\ id[1] = "configuration_"
    /\ \A k \in 2..Len(id) : IsDigit(id[k])
    /\ \E z \in 0..(Len(id) - 1) :
          /\ \A k \in 2..(1 + z) : id[k] = "0"
          /\ SubSeq(id, 2 + z, Len(id)) = IntStr(i)

\* C18: in a returned wide design column 0 is EXPERIMENT and column 1 is
\* CONFIGURATION; all rows of the wide and of the long table carry one EXPERIMENT
\* value, which ends with the selected strategy name; the CONFIGURATION of the
\* i-th generated row, counted from 0, is configuration_ and i zero-padded, the
\* ids are pairwise distinct, and the long rows of row i carry its id.
C18_ExperimentAndConfiguration ==
    pc = "done" =>
        LET R == Len(out_wide.rows)
            nf == Len(factor_cols)
        IN /\ out_wide.columns[1] = <<"EXPERIMENT">>
           /\ out_wide.columns[2] = <<"CONFIGURATION">>
           /\ R = Len(raw)
           /\ experiment_name[Len(experiment_name)] = design_choice
           /\ \A r \in 1..R :
                 /\ out_wide.rows[r][1] = StrV(experiment_name)
                 /\ out_wide.rows[r][2].t = "str"
                 /\ IsIdOf(out_wide.rows[r][2].s, r - 1)
                 /\ out_wide.rows[r][2] = df_doe.rows[r][2]
           /\ \A r1, r2 \in 1..R : r1 # r2 => out_wide.rows[r1][2] # out_wide.rows[r2][2]
           /\ \A q \in 1..Len(out_long.rows) :
                 /\ out_long.rows[q].EXPERIMENT = experiment_name
                 /\ out_long.rows[q].CONFIGURATION = out_wide.rows[((q - 1) \div nf) + 1][2].s

C18_Witness ==
    /\ pc = "done"
    /\ design_choice = "PLACKETTBURMAN"
    /\ Len(out_wide.rows) = 4
    /\ out_wide.rows[1][2] = StrV(<<"configuration_", "0", "0", "0", "0", "0", "0">>)
    /\ out_wide.rows[4][2] = StrV(<<"configuration_", "0", "0", "0", "0", "0", "3">>)
    /\ out_long.rows[Len(out_long.rows)].CONFIGURATION
          = <<"configuration_", "0", "0", "0", "0", "0", "3">>
    /\ out_long.rows[1].EXPERIMENT = <<"YYYY-MM-DD_HHMMSS", "_", "PLACKETTBURMAN">>

\* the input tables that contribute columns
Contributing == {t \in 1..Len(input_tables) :
                    input_tables[t].kind = "table" /\ input_tables[t].cols # <<>>}

EmptyInput == error.kind = "No input data provided."

\* C19: under every strategy the run fails with the empty-input error, and
\* without any table, exactly when no input table contributes a column: no
\* tables, absent tables, tables without columns, tables whose conversion failed.
C19_EmptyInputError ==
    pc # "workflow" =>
        /\ EmptyInput <=> Contributing = {}
        /\ EmptyInput => /\ pc = "failed"
                         /\ factor_cols = <<>> /\ raw = <<>> /\ NoDesign

C19_Witness ==
    /\ pc = "failed"
    /\ EmptyInput
    /\ design_choice = "RANDOMKMEANS"
    /\ Len(input_tables) = 2
    /\ {input_tables[t].kind : t \in 1..2} = {"none", "bad"}

\* the tables that hold column col
Holders(col) == {t \in Contributing : DictHas(input_tables[t].cols, col)}
FirstHolder(col) == CHOOSE t \in Holders(col) : \A h \in Holders(col) : t <= h
LastHolder(col) == CHOOSE t \in Holders(col) : \A h \in Holders(col) : h <= t
\* the position of column col in table t
PlaceIn(t, col) == CHOOSE c \in 1..Len(input_tables[t].cols) : input_tables[t].cols[c][1] = col
\* the tables that repeat a column of an earlier table
Colliding == {t \in Contributing :
                 \E c \in 1..Len(input_tables[t].cols) :
                     FirstHolder(input_tables[t].cols[c][1]) < t}
DuplicateWarnings == {k \in 1..Len(log) : log[k][1] = "duplicate factor columns overwritten"}

\* C20: a column name that occurs in several input tables does not fail the
\* merge; the factor's levels come from the last table that holds the column,
\* one warning is logged for every table that repeats a column, and the factor
\* columns stand in the order of their first appearance across the tables.
C20_DuplicateColumnsMerge ==
    (pc # "workflow" /\ Contributing # {}) =>
        /\ ~EmptyInput
        /\ SeqSet(factor_cols)
              = UNION {SeqSet(DictKeys(input_tables[t].cols)) : t \in Contributing}
        /\ \A j \in 1..Len(factor_cols) :
              LET col == factor_cols[j]
                  last == input_tables[LastHolder(col)].cols
              IN /\ LevelsOf(j) = unique_levels(DictGet(last, col))
                 /\ \A h \in 1..(j - 1) :
                       LET prev == factor_cols[h]
                       IN /\ prev # col
                          /\ \/ FirstHolder(prev) < FirstHolder(col)
                             \/ /\ FirstHolder(prev) = FirstHolder(col)
                                /\ PlaceIn(FirstHolder(col), prev) < PlaceIn(FirstHolder(col), col)
        /\ Cardinality(DuplicateWarnings) = Cardinality(Colliding)
        /\ \A k \in DuplicateWarnings :
              \E t \in Colliding :
                  SeqSet(log[k][2]) = {col \in SeqSet(DictKeys(input_tables[t].cols)) :
                                          FirstHolder(col) < t}

C20_Witness ==
    /\ pc = "done"
    /\ Len(input_tables) = 2
    /\ DictKeys(input_tables[1].cols) = << <<"v">> >>
    /\ DictKeys(input_tables[2].cols) = << <<"w">>, <<"v">> >>
    /\ factor_cols = << <<"v">>, <<"w">> >>
    /\ LevelsOf(1) = <<IntV(1), IntV(0)>>
    /\ log = << <<"duplicate factor columns overwritten", << <<"v">> >> >> >>

NothingMerged == [merged |-> <<>>, seen |-> {}, log |-> <<>>]
MergedUpTo(k) == MergeTables(NothingMerged, SubSeq(input_tables, 1, k))
Failing == {t \in 1..Len(input_tables) : input_tables[t].kind = "bad"}
Converted == SelectSeq(input_tables, LAMBDA t : t.kind # "bad")
IsFailureEntry(entry) == entry[1] = "error processing an input table"

\* C21: an input table whose processing fails contributes nothing: the merged
\* factor map is after its round what it was before, one failure is logged for
\* every such table, and the factors, their levels and the other log entries of
\* the run are those of the remaining tables alone.
C21_FailedTableIsSkipped ==
    pc # "workflow" =>
        /\ \A t \in Failing :
              /\ MergedUpTo(t).merged = MergedUpTo(t - 1).merged
              /\ MergedUpTo(t).log = Append(MergedUpTo(t - 1).log,
                                            <<"error processing an input table", <<>>>>)
        /\ Len(SelectSeq(log, IsFailureEntry)) = Cardinality(Failing)
        /\ LET rest == MergeTables(NothingMerged, Converted)
           IN /\ SelectSeq(log, LAMBDA entry : ~IsFailureEntry(entry)) = rest.log
              /\ IF rest.merged = <<>>
                 THEN EmptyInput
                 ELSE /\ ~EmptyInput
                      /\ factor_cols = DictKeys(rest.merged)
                      /\ levels_map = LevelsMap(rest.merged)

C21_Witness ==
    /\ pc = "done"
    /\ Len(input_tables) = 2
    /\ input_tables[1].kind = "bad"
    /\ DictKeys(input_tables[2].cols) = << <<"w">>, <<"v">> >>
    /\ factor_cols = << <<"w">>, <<"v">> >>
    /\ log = << <<"error processing an input table", <<>>>> >>
    /\ Len(out_wide.rows) > 0

NotImplemented == error.kind = "Design is not implemented in pyDOE3."

MergedCells(j) == DictGet(input_tables[LastHolder(factor_cols[j])].cols, factor_cols[j])
\* the first place of value v in the sequence cells
FirstPlace(cells, v) == LET places == {k \in 1..Len(cells) : cells[k] = v}
                        IN CHOOSE k \in places : \A h \in places : k <= h

\* C23: the level list of every merged column holds exactly the non-missing
\* values of the column, no missing entry, no value twice, and the values stand
\* in the order of their first occurrence in the column.
C23_UniqueLevels ==
    (pc # "workflow" /\ ~EmptyInput) =>
        \A j \in 1..Len(factor_cols) :
            LET cells == MergedCells(j)
                lvls  == LevelsOf(j)
            IN /\ \A k \in 1..Len(lvls) : notna(lvls[k])
               /\ Cardinality(SeqSet(lvls)) = Len(lvls)
               /\ SeqSet(lvls) = {v \in SeqSet(cells) : notna(v)}
               /\ \A a \in 1..(Len(lvls) - 1) :
                     FirstPlace(cells, lvls[a]) < FirstPlace(cells, lvls[a + 1])

C23_Witness ==
    /\ pc = "done"
    /\ Len(input_tables) = 1
    /\ factor_cols = << <<"v">> >>
    /\ MergedCells(1) = <<S("red"), NaN, S("1"), S("red")>>
    /\ LevelsOf(1) = <<S("red"), S("1")>>

WithoutLevels == {j \in 1..Len(factor_cols) : LevelsOf(j) = <<>>}
\* the run has left the strategy branch, or has failed in it
BranchLeft == PastGeneration /\ pc # "fullfact"

\* C24: a design never holds a factor with an empty level list.  When a merged
\* column has no non-missing value, the run fails under FULLFAC, LHS,
\* SPACEFILLINGLHS and PLACKETTBURMAN before any row is produced, although the
\* estimated full-factorial size counts such a factor as one level.
C24_NoEmptyLevelList ==
    /\ Generated => WithoutLevels = {}
    /\ (BranchLeft /\ WithoutLevels # {}
           /\ design_choice \in {"FULLFAC", "LHS", "SPACEFILLINGLHS", "PLACKETTBURMAN"}) =>
          /\ pc = "failed"
          /\ NoDesign
          /\ error.kind \in {"Factor has no defined levels.", "Samples must be >= 1.",
                             "Full factorial would generate too many rows",
                             "Plackett-Burman requires exactly 2 distinct levels per factor."}
    /\ (PastGeneration /\ design_choice = "FULLFAC") =>
          est_runs = Prod([j \in 1..Len(factor_cols) |->
                              IF j \in WithoutLevels THEN 1 ELSE Len(LevelsOf(j))])

C24_Witness ==
    /\ pc = "failed"
    /\ design_choice = "FULLFAC"
    /\ factor_cols = << <<"w">>, <<"u">> >>
    /\ LevelsOf(1) = <<IntV(1), IntV(2)>>
    /\ WithoutLevels = {2}
    /\ est_runs = 2
    /\ error.kind = "Factor has no defined levels."
    /\ error.col = <<"u">>
    /\ NoDesign

\* the STRING node settings whose execution yields input table t
StringWriters(t) == {node \in NodeSettings :
                        /\ node.factor_data_type = "STRING"
                        /\ FactorDefinitionResult(node, <<>>).table = input_tables[t]}
\* the input tables whose Factor Definition execution wrote the flow variable key
WritesOf(key) == {t \in 1..Len(input_tables) :
                     \E node \in StringWriters(t) : MappingKey(ValueColumn(node)) = key}
LastWriter(key) ==
    LET t == CHOOSE t \in WritesOf(key) : \A h \in WritesOf(key) : h <= t
    IN CHOOSE node \in StringWriters(t) : MappingKey(ValueColumn(node)) = key
\* the factors whose lookup name is name, in wide mode and in long mode
SharingFactors(name) ==
    {j \in 1..Len(factor_cols) :
        AfterLastColon(factor_cols[j]) = name /\ ParseColumn(factor_cols[j]).value_col = name}

\* C25: factors that use one value-column name share one encoding map.  The flow
\* variables hold every key once; under factor-mapping_<value column> stands
\* the map of the Factor Definition execution that wrote it last; and in the
\* returned tables the cells of all factors with that value-column name are
\* resolved through this one map, in the wide and in the long output (for a
\* value-column name that the resolver recovers from the key).
C25_SharedEncodingMap ==
    /\ \A a, b \in 1..Len(flow_variables) :
          a # b => flow_variables[a][1] # flow_variables[b][1]
    /\ \A e \in 1..Len(flow_variables) :
          /\ WritesOf(flow_variables[e][1]) # {}
          /\ flow_variables[e][2]
                = json_dumps(factor_string_mapping(
                      LastWriter(flow_variables[e][1]).string_configuration).mapping)
    /\ pc = "done" =>
          \A e \in 1..Len(flow_variables) :
              LET writer == LastWriter(flow_variables[e][1])
                  m == factor_string_mapping(writer.string_configuration).mapping
                  nf == Len(factor_cols)
              IN StripPrefix(flow_variables[e][1]) = ValueColumn(writer) =>
                 \A j \in SharingFactors(ValueColumn(writer)), r \in 1..Len(df_doe.rows) :
                    LET v == df_doe.rows[r][j + 2]
                        resolved == IF notna(v) /\ FloatOk(v) THEN Lookup(m, v) ELSE v
                    IN /\ out_wide.rows[r][j + 2] = resolved
                       /\ out_long.rows[(r - 1) * nf + j].VALUES = StrV(PyStr(resolved))

C25_Witness ==
    /\ pc = "done"
    /\ design_choice = "FULLFAC"
    /\ factor_cols = << <<"T", ":", "[", "U", "]", "a", ":", "[", "N", "]", "b", ":", "v">>,
                        <<"v">> >>
    /\ Len(flow_variables) = 1
    /\ json_loads(flow_variables[1][2]) = << <<<<"0">>, <<"red">>>>, <<<<"1">>, <<"blue">>>> >>
    /\ SharingFactors(<<"v">>) = {1, 2}
    /\ \E r \in 1..Len(df_doe.rows) :
          /\ df_doe.rows[r][3] = IntV(2) /\ out_wide.rows[r][3] = IntV(2)
          /\ df_doe.rows[r][4] = IntV(1) /\ out_wide.rows[r][4] = S("blue")
          /\ out_long.rows[(r - 1) * 2 + 1].VALUES = S("2")
          /\ out_long.rows[(r - 1) * 2 + 2].VALUES = S("blue")
    /\ \E r \in 1..Len(df_doe.rows) :
          df_doe.rows[r][3] = IntV(1) /\ out_wide.rows[r][3] = S("blue")

\* the NUMERIC node settings (minimum <= maximum, step >= 1) whose execution
\* yields input table t
NumericWriters(t) == {node \in NodeSettings :
                         /\ node.factor_data_type = "NUMERIC"
                         /\ node.min_value <= node.max_value /\ node.step_value >= 1
                         /\ FactorDefinitionResult(node, <<>>).table = input_tables[t]}
\* the integers of a column of integer cells
IntsOf(cells) == [k \in 1..Len(cells) |-> cells[k].i]

TableBasedWriters(t) == {node \in NodeSettings :
                            /\ node.factor_input_type = "TABLEBASED"
                            /\ FactorDefinitionResult(node, <<>>).table = input_tables[t]}
\* the distinct (identifier, name) pairs of the node's input table in which both
\* values are present
PresentPairs(node) == {row \in SeqSet(node.input_1) : notna(row[1]) /\ notna(row[2])}
KeyOf(node, pair) == FactorKey(node.table_name, node.unique_identifier, pair[1],
                               node.factor_name, pair[2], ValueColumn(node))

\* C27 (as claimed): a table-based Factor Definition node outputs exactly one
\* column for each distinct (identifier, name) pair with both values present:
\* the column of pair (u, n) is named T:[U]u:[N]n:V, distinct pairs have
\* distinct columns, there is no other column, and every column holds the level
\* list that get_values returned.
C27_OneColumnPerPair ==
    \A t \in 1..Len(input_tables) : \A node \in TableBasedWriters(t) :
        LET cols == input_tables[t].cols
            pairs == PresentPairs(node)
        IN /\ Len(cols) = Cardinality(pairs)
           /\ SeqSet(DictKeys(cols)) = {KeyOf(node, pair) : pair \in pairs}
           /\ \A p1, p2 \in pairs : p1 # p2 => KeyOf(node, p1) # KeyOf(node, p2)
           /\ \A c \in 1..Len(cols) :
                 cols[c][2] = IntCells(get_values(node, <<>>, ValueColumn(node)).values)

\* configuration_ followed by exactly ConfigWidth decimal digits
FixedForm(id) ==
    /\ Len(id) = ConfigWidth + 1
    /\ id[1] = "configuration_"
    /\ \A k \in 2..Len(id) : IsDigit(id[k])
\* the CONFIGURATION cells of a wide table
ConfigurationCells(df) ==
    IF Len(df.columns) >= 2 /\ df.columns[2] = <<"CONFIGURATION">>
    THEN {df.rows[r][2] : r \in 1..Len(df.rows)} ELSE {}

\* C28 (as claimed): every CONFIGURATION id of the design, of the wide output and
\* of the long output is configuration_ followed by exactly six decimal digits,
\* whatever the strategy and the sample count, and resolution leaves the ids as
\* they were assigned.
C28_FixedWidthIds ==
    /\ \A cell \in ConfigurationCells(df_doe) \cup ConfigurationCells(out_wide) :
          cell.t = "str" /\ FixedForm(cell.s)
    /\ \A q \in 1..Len(df_long) : FixedForm(df_long[q].CONFIGURATION)
    /\ \A q \in 1..Len(out_long.rows) : FixedForm(out_long.rows[q].CONFIGURATION)
    /\ WideResolved =>
          \A r \in 1..Len(df_doe.rows) : out_wide.rows[r][2] = df_doe.rows[r][2]
    /\ pc \in {"finalize", "done"} =>
          \A q \in 1..Len(df_long) : out_long.rows[q].CONFIGURATION = df_long[q].CONFIGURATION

\* the rows whose coordinate of factor j lies in [i/N, (i+1)/N), N = samples
RowsInStratum(j, i) ==
    {r \in 1..Len(raw) : i * LhsSubdiv <= raw[r][j] /\ raw[r][j] < (i + 1) * LhsSubdiv}
\* the rows of the design that hold level v of factor j
RowsAtLevel(j, v) == {r \in 1..Len(df_doe.rows) : FactorCell(r, j) = v}

\* every half-open interval holds exactly one coordinate of every factor
StrataHalfOpen ==
    \A j \in 1..Len(factor_cols), i \in 0..(samples - 1) :
        Cardinality(RowsInStratum(j, i)) = 1

\* every level of a factor whose level count divides the sample count occurs in
\* the same number of rows
LevelsBalanced ==
    \A j \in 1..Len(factor_cols) :
        LET L == Len(LevelsOf(j))
        IN samples % L = 0 =>
              \A k \in 1..L : Cardinality(RowsAtLevel(j, LevelsOf(j)[k])) = samples \div L

PlacesInStrata(p, j) ==
    /\ \A a, b \in 1..samples : a # b => p[a] # p[b]
    /\ \A r \in 1..samples :
          /\ (p[r] - 1) * LhsSubdiv <= raw[r][j] /\ raw[r][j] <= p[r] * LhsSubdiv
          /\ raw[r][j] = p[r] * LhsSubdiv => p[r] >= 2
AtUpperEnd(p, j, r) == raw[r][j] = p[r] * LhsSubdiv

LongRowOf(r, j) == out_long.rows[(r - 1) * Len(factor_cols) + j]

\* C30 (as claimed): in the returned tables the long row of every configuration
\* and every factor column carries in VALUES the string form of the resolved
\* wide cell, whatever the column names and the flow variables are.
C30_WideAndLongAgree ==
    pc = "done" =>
        /\ Len(out_long.rows) = Len(out_wide.rows) * Len(factor_cols)
        /\ \A r \in 1..Len(out_wide.rows), j \in 1..Len(factor_cols) :
              LongRowOf(r, j).VALUES = StrV(PyStr(out_wide.rows[r][j + 2]))

====
